---- MODULE Spec2Model ----
(***************************************************************************)
(* Storage stack of the kernel: SD block device (sd.rs), MBR partition    *)
(* table reader (mbr.rs) and FAT32 volume driver (fat32.rs).              *)
(*                                                                         *)
(* A Rust u32 is modelled as a pair <<hi, lo>> of 16-bit limbs             *)
(* (value = hi * 2^16 + lo): the model checker's integers are signed       *)
(* 32-bit, and the FAT code depends on bits 28..31 of its values.          *)
(***************************************************************************)
EXTENDS Integers, Sequences, FiniteSets, TLC

VARIABLES
    raw,            \* fat32.rs: argument x of the last get_fat_entry_type call
    cluster_type,   \* fat32.rs: what that call returned ("none" before any call)
    disk,           \* the card's contents (environment): see Sector
    card_ready,     \* the engine has brought the card up (environment)
    initialized,    \* sd.rs: SDInner.initialized
    sd_call,        \* sd.rs: the last SD call, its arguments and what the engine did
    sd_result,      \* sd.rs: the Result that call returned
    kernel,         \* "running", or "panic" once a panic!/assert! has fired
    mbr,            \* mbr.rs: MBRInner, or "none" before MBR::new
    mbr_call,       \* mbr.rs: the last MBR call and its argument
    mbr_result,     \* mbr.rs: what that call returned
    overflow_checks,\* the build: TRUE when arithmetic overflow panics (debug profile),
                    \* FALSE when it wraps (release profile)
    fat32,          \* fat32.rs: Fat32Inner (fat, sectors_per_cluster, clusters_begin_lba)
    walk,           \* fat32.rs: the running chain walk: its locals (cluster,
                    \* chain_length, data) and what it has read so far
    chain_result,   \* fat32.rs: what the last chain walk returned
    fat32_call,     \* fat32.rs: the last call on the volume driver, its argument and
                    \* the block-device reads it issued
    fat32_result,   \* fat32.rs: what that call returned
    cmd_prev,       \* emmc.rs: the get_cmd call before the last one and its result
    cmd_call,       \* emmc.rs: the command the last get_cmd call was made on
    cmd_result,     \* emmc.rs: what that call returned
    irq_masked,     \* the core's IRQ mask bit
    context,        \* who runs on the core: the kernel's main flow or an IRQ handler
    sections,       \* per context, the critical sections it is inside, outermost first
    returned,       \* the context and method of the last critical section left
    decode_call,    \* fat32.rs: the field decoder last called and its bytes
    decode_result   \* fat32.rs: what that call returned

\* the core's exclusive sections
lockVars == <<irq_masked, context, sections, returned>>
\* the pure lookups (FAT entry classification and the command table) and the
\* sections
decVars == <<decode_call, decode_result>>
clsVars == <<raw, cluster_type, cmd_prev, cmd_call, cmd_result, lockVars, decVars>>
sdVars == <<disk, card_ready, initialized, sd_call, sd_result>>
mbrVars == <<kernel, mbr, mbr_call, mbr_result>>
chainVars == <<overflow_checks, fat32, walk, chain_result, fat32_call, fat32_result>>
vars == <<raw, cluster_type, disk, card_ready, initialized, sd_call, sd_result,
          kernel, mbr, mbr_call, mbr_result, overflow_checks, fat32, walk, chain_result,
          fat32_call, fat32_result, cmd_prev, cmd_call, cmd_result, irq_masked,
          context, sections, returned, decode_call, decode_result>>

----------------------------------------------------------------------------
(* u32 arithmetic on 16-bit limbs *)

Limb == 256 * 256

U32Of(hi, lo) == <<hi, lo>>
U32FromNat(n) == <<n \div Limb, n % Limb>>
U32Zero == <<0, 0>>

\* x << n and x >> n on 32 bits, for 0 <= n < 32; bits shifted out are dropped
Shl(x, n) ==
    IF n >= 16 THEN <<(x[2] * 2^(n - 16)) % Limb, 0>>
    ELSE <<(x[1] * 2^n + (x[2] \div 2^(16 - n))) % Limb, (x[2] * 2^n) % Limb>>

Shr(x, n) ==
    IF n >= 16 THEN <<0, x[1] \div 2^(n - 16)>>
    ELSE <<x[1] \div 2^n, (x[1] % 2^n) * 2^(16 - n) + (x[2] \div 2^n)>>

U32Le(x, y) == x[1] < y[1] \/ (x[1] = y[1] /\ x[2] <= y[2])
U32In(x, a, b) == U32Le(a, x) /\ U32Le(x, b)

----------------------------------------------------------------------------
(* fat32.rs: FAT entry classification *)

\* the match arms' literals
BadClusterVal == U32Of(4095, 65527)      \* 0xFFF_FFF7
LastClusterLo == U32Of(4095, 65528)      \* 0xFFF_FFF8
LastClusterHi == U32Of(4095, 65535)      \* 0xFFF_FFFF
UsedClusterLo == U32Of(0, 2)             \* 0x2
UsedClusterHi == U32Of(4095, 65519)      \* 0xFFF_FFEF

\* C5's mutant: the Bad arm is gone, so a bad cluster number is walked like a used one
get_fat_entry_type_no_bad(x) ==
    LET cls == Shr(Shl(x, 4), 4) IN
    IF cls = U32Of(0, 0) THEN "FreeCluster"
    ELSE IF cls = U32Of(0, 1) THEN "ReservedCluster"
    ELSE IF U32In(cls, LastClusterLo, LastClusterHi) THEN "LastCluster"
    ELSE IF U32In(cls, UsedClusterLo, BadClusterVal) THEN "UsedCluster"
    ELSE "panic"

\* C1's mutant: the upper bits are not cleared before the match
get_fat_entry_type_unmasked(x) ==
    LET cls == x IN
    IF cls = U32Of(0, 0) THEN "FreeCluster"
    ELSE IF cls = U32Of(0, 1) THEN "ReservedCluster"
    ELSE IF cls = BadClusterVal THEN "BadCluster"
    ELSE IF U32In(cls, LastClusterLo, LastClusterHi) THEN "LastCluster"
    ELSE IF U32In(cls, UsedClusterLo, UsedClusterHi) THEN "UsedCluster"
    ELSE "panic"

\* C2's mutant: the Used arm runs up to 0xFFF_FFF6, swallowing the reserved values
get_fat_entry_type_wide_used(x) ==
    LET cls == Shr(Shl(x, 4), 4) IN
    IF cls = U32Of(0, 0) THEN "FreeCluster"
    ELSE IF cls = U32Of(0, 1) THEN "ReservedCluster"
    ELSE IF cls = BadClusterVal THEN "BadCluster"
    ELSE IF U32In(cls, LastClusterLo, LastClusterHi) THEN "LastCluster"
    ELSE IF U32In(cls, UsedClusterLo, U32Of(4095, 65526)) THEN "UsedCluster"
    ELSE "panic"

\* Fat32Inner::get_fat_entry_type: cls = (x << 4) >> 4, then the match, arms in
\* source order; the `_` arm panics
get_fat_entry_type(x) ==
    LET cls == Shr(Shl(x, 4), 4) IN
    IF cls = U32Of(0, 0) THEN "FreeCluster"
    ELSE IF cls = U32Of(0, 1) THEN "ReservedCluster"
    ELSE IF cls = BadClusterVal THEN "BadCluster"
    ELSE IF U32In(cls, LastClusterLo, LastClusterHi) THEN "LastCluster"
    ELSE IF U32In(cls, UsedClusterLo, UsedClusterHi) THEN "UsedCluster"
    ELSE "panic"

\* the low 28 bits of a raw entry, by remainder rather than by shifting
Low28(x) == <<x[1] % 4096, x[2]>>

\* nothing classified yet
ClsInit ==
    /\ raw = U32Zero
    /\ cluster_type = "none"
    /\ cmd_prev = [cmd |-> "none", result |-> [kind |-> "none"]]
    /\ cmd_call = "none"
    /\ cmd_result = [kind |-> "none"]
    /\ irq_masked = TRUE
    /\ context = "main"
    /\ sections = [main |-> <<>>, irq |-> <<>>]
    /\ returned = [context |-> "none", method |-> "none"]
    /\ decode_call = [fn |-> "none", bytes |-> <<>>]
    /\ decode_result = <<>>

----------------------------------------------------------------------------
(* The card: 512-byte sectors addressed by a u32 LBA *)

SectorSize == 512

U32AddNat(x, k) ==
    LET lo == x[2] + k IN <<(x[1] + (lo \div Limb)) % Limb, lo % Limb>>

ZeroSlot == [i \in 1..16 |-> 0]

\* sector 0 as laid out on the card: 446 bytes of boot code, four 16-byte
\* partition slots, two signature bytes
Sector0(d) ==
    [i \in 1..SectorSize |->
        IF i <= 446 THEN d.code
        ELSE IF i <= 510 THEN d.parts[((i - 447) \div 16) + 1][((i - 447) % 16) + 1]
        ELSE d.sig[i - 510]]

\* every other sector holds a pattern that depends on its address and the offset
PatternByte(lba, off) ==
    ((lba[2] * 37 + lba[1] * 11 + off * 3 + (off \div 256)) % 251) + 1

\* a card may also hold a FAT32 volume in partition 1: d.vol gives the values of
\* the boot sector's fields, d.fat the first sector of the FAT and d.dir the raw
\* records of the first sector of the data region
U16Bytes(n) == <<n % 256, n \div 256>>
U32Bytes(x) == <<x[2] % 256, x[2] \div 256, x[1] % 256, x[1] \div 256>>

\* the boot sector as laid out on the card (all fields little-endian)
BootSectorImage(v) ==
    [i \in 1..SectorSize |->
        LET k == i - 1 IN
        CASE k \in 11..12 -> U16Bytes(v.bytes_per_sec)[k - 10]
          [] k = 13 -> v.sec_per_cluster
          [] k \in 14..15 -> U16Bytes(v.reserved_area_nsec)[k - 13]
          [] k = 16 -> v.nfats
          [] k \in 17..18 -> U16Bytes(v.max_files)[k - 16]
          [] k \in 19..20 -> U16Bytes(v.fs_nsec)[k - 18]
          [] k = 21 -> 248
          [] k \in 22..23 -> U16Bytes(v.zero)[k - 21]
          [] k \in 32..35 -> U32Bytes(v.nsec_in_fs)[k - 31]
          [] k \in 36..39 -> U32Bytes(v.nsec_per_fat)[k - 35]
          [] k \in 44..47 -> U32Bytes(v.first_cluster)[k - 43]
          [] k \in 48..49 -> U16Bytes(v.info_sec_num)[k - 47]
          [] k \in 50..51 -> U16Bytes(v.backup_boot_loc)[k - 49]
          [] k = 66 -> v.extended_sig
          [] k \in 510..511 -> v.sig[k - 509]
          [] OTHER -> 0]

\* the FSInfo sector: lead, structure and trail signatures, the two hints
FSInfoImage ==
    [i \in 1..SectorSize |->
        LET k == i - 1 IN
        CASE k \in 0..3 -> <<82, 82, 97, 65>>[k + 1]
          [] k \in 484..487 -> <<114, 114, 65, 97>>[k - 483]
          [] k \in 488..491 -> <<7, 0, 0, 0>>[k - 487]
          [] k \in 492..495 -> <<3, 0, 0, 0>>[k - 491]
          [] k \in 508..511 -> <<0, 0, 85, 170>>[k - 507]
          [] OTHER -> 0]

\* one 32-byte directory record as laid out on the card
DirentImage(r) ==
    [i \in 1..32 |->
        LET k == i - 1 IN
        CASE k \in 0..10 -> r.name[k + 1]
          [] k = 11 -> r.attr
          [] k \in 20..21 -> U16Bytes(r.hi)[k - 19]
          [] k \in 26..27 -> U16Bytes(r.lo)[k - 25]
          [] k \in 28..31 -> U32Bytes(r.size)[k - 27]
          [] OTHER -> 0]

\* a sector of directory records, zero-filled behind the last one
DirImage(recs) ==
    [i \in 1..SectorSize |->
        LET j == ((i - 1) \div 32) + 1 IN
        IF j <= Len(recs) THEN DirentImage(recs[j])[((i - 1) % 32) + 1] ELSE 0]

\* where the volume's sectors lie (32-bit sector addresses)
VolStart(d) == <<d.parts[1][11] + 256 * d.parts[1][12], d.parts[1][9] + 256 * d.parts[1][10]>>
VolFatStart(d) == U32AddNat(VolStart(d), d.vol.reserved_area_nsec)
VolDataStart(d) ==
    LET n == d.vol.nfats * d.vol.nsec_per_fat[2] IN
    U32AddNat(<<(VolFatStart(d)[1] + d.vol.nfats * d.vol.nsec_per_fat[1]) % Limb,
                VolFatStart(d)[2]>>, n)

Sector(d, lba) ==
    IF "written" \in DOMAIN d /\ lba \in d.written THEN [i \in 1..SectorSize |-> 0]
    ELSE IF lba = U32Zero THEN Sector0(d)
    ELSE IF "vol" \in DOMAIN d /\ lba = VolStart(d) THEN BootSectorImage(d.vol)
    ELSE IF "vol" \in DOMAIN d /\ lba = U32AddNat(VolStart(d), 1) THEN FSInfoImage
    ELSE IF "vol" \in DOMAIN d /\ lba = VolFatStart(d) THEN d.fat
    ELSE IF "vol" \in DOMAIN d /\ lba = VolDataStart(d) THEN DirImage(d.dir)
    ELSE [i \in 1..SectorSize |-> PatternByte(lba, i - 1)]

RECURSIVE DiskBytes(_, _, _)
DiskBytes(d, lba, n) ==
    IF n = 0 THEN <<>> ELSE Sector(d, lba) \o DiskBytes(d, U32AddNat(lba, 1), n - 1)

----------------------------------------------------------------------------
(* sd.rs: the block device over the host-controller engine *)

\* what the engine can do with one request: bring-up may succeed or fail, and a
\* transfer can succeed only on a card that was brought up
EngineOutcomes == {"ok", "error"}
TransferOutcomes(ready) == IF ready THEN {"ok", "error"} ELSE {"error"}

\* EMMCController::emmc_init_card(): the card is usable afterwards iff it succeeded
emmc_init_card(outcome) == (outcome = "ok")

\* EMMCController::emmc_transfer_blocks(lba, nsec, &mut buffer, write): a successful
\* read fills the caller's buffer, as far as it reaches, with the sectors from lba
\* on; a failed one leaves the buffer as it was. The Result is the outcome.
emmc_transfer_blocks(d, lba, nsec, buffer, write, outcome) ==
    IF outcome = "ok" /\ ~write
    THEN LET src == IF nsec = 0 THEN <<>> ELSE Sector(d, lba)
             n == IF nsec = 0 THEN 0 ELSE SectorSize
         IN  [res |-> "ok",
              buffer |-> [i \in 1..Len(buffer) |-> IF i <= n THEN src[i] ELSE buffer[i]]]
    ELSE [res |-> outcome, buffer |-> buffer]

\* the card after one transfer: a read leaves it as it was, a completed write
\* puts the caller's buffer on it (d.written names the sectors that were written)
emmc_card_after(d, lba, nsec, write, outcome) ==
    IF write /\ outcome = "ok" /\ nsec > 0
    THEN [k \in DOMAIN d \cup {"written"} |->
             IF k # "written" THEN d[k]
             ELSE IF "written" \in DOMAIN d THEN d.written \cup {lba} ELSE {lba}]
    ELSE d

\* a block device that asks the engine for host-to-card transfers (variant of
\* emmc_read_sectors_write)
emmc_read_sectors_write_set(lba, nsec) == TRUE

\* SDInner::emmc_read_sectors: the `write` argument of its emmc_transfer_blocks call
emmc_read_sectors_write(lba, nsec) == FALSE

\* SDInner::emmc_read_sectors: a zeroed [u8; 512] is handed to the engine, the
\* engine's result is dropped, and Ok(buffer) is returned; neither `initialized`
\* (init) nor nsec decides the result or its length.
emmc_read_sectors(d, init, lba, nsec, outcome) ==
    LET buffer == [i \in 1..SectorSize |-> 0]
        xfer == emmc_transfer_blocks(d, lba, nsec, buffer,
                                     emmc_read_sectors_write(lba, nsec), outcome)
    IN  [ok |-> TRUE, data |-> xfer.buffer]

\* the card after one pi_sec_read, and after the pi_sec_reads of a log
card_after_read(d, lba, nsec, outcome) ==
    emmc_card_after(d, lba, nsec, emmc_read_sectors_write(lba, nsec), outcome)

RECURSIVE card_after_reads(_, _)
card_after_reads(d, reads) ==
    IF reads = <<>> THEN d
    ELSE card_after_reads(card_after_read(d, Head(reads).lba, Head(reads).nsec,
                                          Head(reads).engine),
                          Tail(reads))

\* SD::pi_sec_read: emmc_read_sectors inside the SD lock
pi_sec_read(d, init, lba, nsec, outcome) == emmc_read_sectors(d, init, lba, nsec, outcome)

MaxLba == 7          \* LBAs 0 .. MaxLba are requested
MaxNsec == 3         \* sector counts 0 .. MaxNsec are requested

\* a well-formed single-partition table and the cards of this model
Fat32LbaSlot == <<128, 0, 0, 0, 12, 0, 0, 0, 1, 0, 0, 0, 0, 8, 0, 0>>

Disks == {[code |-> c, parts |-> <<Fat32LbaSlot, ZeroSlot, ZeroSlot, ZeroSlot>>,
           sig |-> <<85, 170>>] : c \in {0, 144}}

NoCall == [op |-> "none"]

NoMbr == [uninit |-> TRUE]          \* the MBR static before MBR::new
NoResult == [kind |-> "none"]
Panicked == [kind |-> "panic"]
Returned(v) == [kind |-> "value", val |-> v]

NoWalk == [pc |-> "idle"]

\* no FAT32 driver constructed: release build, nothing walked
ChainIdle ==
    /\ overflow_checks = FALSE
    /\ fat32 = [uninit |-> TRUE]
    /\ walk = NoWalk
    /\ chain_result = NoResult
    /\ fat32_call = NoCall
    /\ fat32_result = NoResult

\* MBR not yet constructed, kernel running
MbrIdle ==
    /\ kernel = "running"
    /\ mbr = NoMbr
    /\ mbr_call = NoCall
    /\ mbr_result = NoResult

\* SDInner::new: initialized = false
SdIdle ==
    /\ disk \in Disks
    /\ card_ready = FALSE
    /\ initialized = FALSE
    /\ sd_call = NoCall
    /\ sd_result = [ok |-> TRUE, data |-> <<>>]

\* SD::pi_sd_init -> SDInner::emmc_init: emmc_init_card() is called and whatever it
\* did is dropped; initialized = true; Ok(())
pi_sd_init(outcome) ==
    /\ card_ready' = emmc_init_card(outcome)
    /\ initialized' = TRUE
    /\ sd_call' = [op |-> "init", engine |-> outcome, was_initialized |-> initialized]
    /\ sd_result' = [ok |-> TRUE, data |-> <<>>]
    /\ UNCHANGED <<disk, clsVars, mbrVars, chainVars>>

\* SD::pi_sec_read(lba, nsec), called by anyone holding the SD handle
SdRead(lba, nsec, outcome) ==
    /\ sd_call' = [op |-> "read", lba |-> lba, nsec |-> nsec,
                   write |-> emmc_read_sectors_write(lba, nsec),
                   engine |-> outcome, was_initialized |-> initialized]
    /\ sd_result' = pi_sec_read(disk, initialized, lba, nsec, outcome)
    /\ disk' = card_after_read(disk, lba, nsec, outcome)
    /\ UNCHANGED <<card_ready, initialized, clsVars, mbrVars, chainVars>>

SdNext ==
    \/ \E o \in EngineOutcomes : pi_sd_init(o)
    \/ \E l \in 0..MaxLba, n \in 0..MaxNsec, o \in TransferOutcomes(card_ready) :
           SdRead(U32FromNat(l), n, o)

InitSD == ClsInit /\ SdIdle /\ MbrIdle /\ ChainIdle

SpecSD == InitSD /\ [][SdNext]_vars

\* C6 as claimed, for the reads whose transfer the engine completed: a successful
\* read of count >= 1 sectors returns count * 512 bytes, the count sectors from lba on.
C6_ReadReturnsCountSectors ==
    (sd_call.op = "read" /\ sd_call.nsec >= 1 /\ sd_call.engine = "ok" /\ sd_result.ok) =>
        /\ Len(sd_result.data) = sd_call.nsec * 512
        /\ sd_result.data = DiskBytes(disk, sd_call.lba, sd_call.nsec)

\* C7 as claimed: a read returns Ok exactly when the device was initialized and the
\* engine's transfer succeeded; otherwise it returns an error and no data.
C7_ReadFailsWhenUninitializedOrTransferFails ==
    sd_call.op = "read" =>
        /\ (sd_result.ok <=> (sd_call.was_initialized /\ sd_call.engine = "ok"))
        /\ (~sd_result.ok => sd_result.data = <<>>)

----------------------------------------------------------------------------
(* mbr.rs: partition table reader *)

\* bytes lo .. hi - 1 of a 0-indexed slice, as &v[lo..hi]
Slice(v, lo, hi) == [i \in 1..(hi - lo) |-> v[lo + i]]

\* u32::from_le_bytes: the last byte is the most significant
RECURSIVE from_le_bytes_acc(_, _, _)
from_le_bytes_acc(arr, i, acc) ==
    IF i = 0 THEN acc
    ELSE from_le_bytes_acc(arr, i - 1, U32AddNat(Shl(acc, 8), arr[i]))

\* C10's mutant: the four bytes are read most significant first
from_be_bytes(arr) == from_le_bytes_acc(<<arr[4], arr[3], arr[2], arr[1]>>, 4, U32Zero)

from_le_bytes(arr) == from_le_bytes_acc(arr, 4, U32Zero)

\* PartitionEntry::new(part: [u8; 16])
PartitionEntry_new(part) ==
    [bootable_p |-> part[1],
     chs_start |-> Slice(part, 1, 4),
     part_type |-> part[5],
     chs_end |-> Slice(part, 5, 8),
     lba_start |-> from_le_bytes(Slice(part, 8, 12)),
     nsec |-> from_le_bytes(Slice(part, 12, 16))]

\* MBRInner::new(boot_sector)
MBRInner_new(boot_sector) ==
    [code |-> Slice(boot_sector, 0, 446),
     part_tab1 |-> Slice(boot_sector, 446, 446 + 16),
     part_tab2 |-> Slice(boot_sector, 446 + 16, 446 + 32),
     part_tab3 |-> Slice(boot_sector, 446 + 32, 446 + 48),
     part_tab4 |-> Slice(boot_sector, 446 + 48, 446 + 64),
     sigval |-> Slice(boot_sector, 510, 512)]

mbr_part_is_fat32(t) == t = 11 \/ t = 12

mbr_partition_empty(part) == part = [i \in 1..16 |-> 0]

\* C11's mutant: slots 2 and 3 are handed out for each other
get_partition_swapped(m, partno) ==
    CASE partno = 1 -> PartitionEntry_new(m.part_tab1)
      [] partno = 2 -> PartitionEntry_new(m.part_tab3)
      [] partno = 3 -> PartitionEntry_new(m.part_tab2)
      [] partno = 4 -> PartitionEntry_new(m.part_tab4)
      [] OTHER -> Panicked

\* MBRInner::get_partition: "panic" stands for the `_ => panic!` arm
get_partition(m, partno) ==
    CASE partno = 1 -> PartitionEntry_new(m.part_tab1)
      [] partno = 2 -> PartitionEntry_new(m.part_tab2)
      [] partno = 3 -> PartitionEntry_new(m.part_tab3)
      [] partno = 4 -> PartitionEntry_new(m.part_tab4)
      [] OTHER -> Panicked

\* C8's mutant: the fourth slot is not looked at
mbr_check_asserts_skip_tab4(m) ==
    /\ m.sigval[1] = 85
    /\ m.sigval[2] = 170
    /\ mbr_part_is_fat32(get_partition(m, 1).part_type)
    /\ ~mbr_partition_empty(m.part_tab1)
    /\ mbr_partition_empty(m.part_tab2)
    /\ mbr_partition_empty(m.part_tab3)

\* MBRInner::mbr_check: the conjunction of its assert!s; the function returns true
\* when all hold and panics at the first that does not
mbr_check_asserts(m) ==
    /\ m.sigval[1] = 85
    /\ m.sigval[2] = 170
    /\ mbr_part_is_fat32(get_partition(m, 1).part_type)
    /\ ~mbr_partition_empty(m.part_tab1)
    /\ mbr_partition_empty(m.part_tab2)
    /\ mbr_partition_empty(m.part_tab3)
    /\ mbr_partition_empty(m.part_tab4)

\* MBRInner::get_sigval, a u16
get_sigval(m) == ((m.sigval[2] * 256) % Limb) + m.sigval[1]

\* partition slots and signatures found on the cards of the MBR specification
Fat32ChsSlot == <<0, 1, 2, 3, 11, 4, 5, 6, 120, 86, 52, 18, 255, 255, 255, 255>>
LinuxSlot == <<128, 0, 0, 0, 131, 0, 0, 0, 1, 0, 0, 0, 0, 8, 0, 0>>
TopByteSlot == [i \in 1..16 |-> IF i = 16 THEN 128 ELSE 0]
FirstByteSlot == [i \in 1..16 |-> IF i = 1 THEN 128 ELSE 0]

Slot1Choices == {Fat32LbaSlot, Fat32ChsSlot, LinuxSlot, ZeroSlot}
OtherSlotChoices == {ZeroSlot, TopByteSlot, FirstByteSlot}
SigChoices == {<<85, 170>>, <<170, 85>>, <<85, 0>>, <<0, 170>>}

\* cards that differ from a well-formed one in at most two places
MbrDisks ==
    {d \in [code : {144}, parts : Slot1Choices \X OtherSlotChoices \X OtherSlotChoices
                                     \X OtherSlotChoices,
            sig : SigChoices] :
        Cardinality({k \in 2..4 : d.parts[k] # ZeroSlot})
            + (IF d.parts[1] # Fat32LbaSlot THEN 1 ELSE 0)
            + (IF d.sig # <<85, 170>> THEN 1 ELSE 0) <= 2}

MaxPartno == 5       \* partition numbers 0 .. MaxPartno are asked for

MbrInit ==
    /\ disk \in MbrDisks
    /\ card_ready = FALSE
    /\ initialized = FALSE
    /\ sd_call = NoCall
    /\ sd_result = [ok |-> TRUE, data |-> <<>>]
    /\ MbrIdle

\* MBR::new: pi_sd_init()?, pi_sec_read(0, 1).unwrap(), the length assert, MBRInner::new
MBR_new(o_init, o_read) ==
    /\ kernel = "running"
    /\ mbr = NoMbr
    /\ LET ready == emmc_init_card(o_init)
           o == IF ready THEN o_read ELSE "error"
           boot_sector == pi_sec_read(disk, TRUE, U32Zero, 1, o)
       IN  /\ card_ready' = ready
           /\ initialized' = TRUE
           /\ sd_call' = [op |-> "read", lba |-> U32Zero, nsec |-> 1,
                          write |-> emmc_read_sectors_write(U32Zero, 1),
                          engine |-> o, was_initialized |-> TRUE]
           /\ sd_result' = boot_sector
           /\ disk' = card_after_read(disk, U32Zero, 1, o)
           /\ IF boot_sector.ok /\ Len(boot_sector.data) = 512
              THEN mbr' = MBRInner_new(boot_sector.data) /\ kernel' = kernel
              ELSE mbr' = mbr /\ kernel' = "panic"
    /\ mbr_call' = [op |-> "new"]
    /\ mbr_result' = NoResult
    /\ UNCHANGED <<clsVars, chainVars>>

\* MBR::mbr_check
mbr_check ==
    /\ kernel = "running"
    /\ mbr # NoMbr
    /\ mbr_call' = [op |-> "check"]
    /\ IF mbr_check_asserts(mbr)
       THEN mbr_result' = Returned(TRUE) /\ kernel' = kernel
       ELSE mbr_result' = Panicked /\ kernel' = "panic"
    /\ UNCHANGED <<mbr, sdVars, clsVars, chainVars>>

\* MBR::mbr_get_partition(partno)
mbr_get_partition(partno) ==
    /\ kernel = "running"
    /\ mbr # NoMbr
    /\ mbr_call' = [op |-> "get_partition", partno |-> partno]
    /\ LET part == get_partition(mbr, partno) IN
       IF part = Panicked
       THEN mbr_result' = Panicked /\ kernel' = "panic"
       ELSE mbr_result' = Returned(part) /\ kernel' = kernel
    /\ UNCHANGED <<mbr, sdVars, clsVars, chainVars>>

\* MBR::mbr_get_sigval
mbr_get_sigval ==
    /\ kernel = "running"
    /\ mbr # NoMbr
    /\ mbr_call' = [op |-> "get_sigval"]
    /\ mbr_result' = Returned(get_sigval(mbr))
    /\ UNCHANGED <<kernel, mbr, sdVars, clsVars, chainVars>>

MbrNext ==
    \/ \E oi \in EngineOutcomes, o \in EngineOutcomes : MBR_new(oi, o)
    \/ mbr_check
    \/ \E n \in 0..MaxPartno : mbr_get_partition(n)
    \/ mbr_get_sigval

InitMBR == ClsInit /\ MbrInit /\ ChainIdle

SpecMBR == InitMBR /\ [][MbrNext]_vars

\* the MBR invariant, read off the bytes MBRInner holds
MbrWellFormed(m) ==
    /\ m.sigval = <<85, 170>>
    /\ m.part_tab1[5] \in {11, 12}
    /\ \E i \in 1..16 : m.part_tab1[i] # 0
    /\ \A i \in 1..16 : m.part_tab2[i] = 0 /\ m.part_tab3[i] = 0 /\ m.part_tab4[i] = 0

\* C8: mbr_check succeeds if and only if the signature bytes are 0x55, 0xAA, slot 1
\* has type 0x0B or 0x0C and is not all-zero, and slots 2, 3 and 4 are all-zero; on
\* any MBR that violates one of these it does not succeed.
C8_CheckSucceedsIffWellFormed ==
    mbr_call.op = "check" => (mbr_result = Returned(TRUE) <=> MbrWellFormed(mbr))

\* C8 witness: the check succeeded on the bytes the card holds
C8_Witness ==
    /\ mbr_call.op = "check" /\ mbr_result = Returned(TRUE)
    /\ mbr.part_tab1 = disk.parts[1] /\ mbr.sigval = <<85, 170>>

\* C9 as claimed: a failed validation leaves the kernel running
C9_FailedValidationDoesNotAbort ==
    (mbr_call.op = "check" /\ ~MbrWellFormed(mbr)) => kernel = "running"

LeValue(b0, b1, b2, b3) == <<b2 + 256 * b3, b0 + 256 * b1>>

\* the decode C10 states, byte for byte
C10_Decoded(slot, part) ==
    /\ part.bootable_p = slot[1]
    /\ part.part_type = slot[5]
    /\ part.lba_start = LeValue(slot[9], slot[10], slot[11], slot[12])
    /\ part.nsec = LeValue(slot[13], slot[14], slot[15], slot[16])

C10_Slot(m, n) == <<m.part_tab1, m.part_tab2, m.part_tab3, m.part_tab4>>[n]

C10_Example == <<128, 0, 0, 0, 12, 0, 0, 0, 1, 0, 0, 0, 0, 8, 0, 0>>

\* C10 as claimed: the decode is bootable = byte 0, type = byte 4, lba_start and
\* nsec little-endian, and the example slot decodes to nsec = 0x00080000
C10_DecodeAsClaimed ==
    (mbr_call.op = "get_partition" /\ mbr_call.partno \in 1..4) =>
        LET slot == C10_Slot(mbr, mbr_call.partno) IN
        /\ C10_Decoded(slot, mbr_result.val)
        /\ (slot = C10_Example =>
               /\ mbr_result.val.bootable_p = 128 /\ mbr_result.val.part_type = 12
               /\ mbr_result.val.lba_start = <<0, 1>> /\ mbr_result.val.nsec = <<8, 0>>)

\* C10 as amended: the same decode; the example slot decodes to bootable 0x80, type
\* 0x0C, lba_start 1 and nsec 0x00000800
C10_DecodeLittleEndian ==
    (mbr_call.op = "get_partition" /\ mbr_call.partno \in 1..4) =>
        LET slot == C10_Slot(mbr, mbr_call.partno) IN
        /\ C10_Decoded(slot, mbr_result.val)
        /\ (slot = C10_Example =>
               /\ mbr_result.val.bootable_p = 128 /\ mbr_result.val.part_type = 12
               /\ mbr_result.val.lba_start = <<0, 1>> /\ mbr_result.val.nsec = <<0, 2048>>)

\* C10 witness: the example slot was decoded from slot 1
C10_Witness ==
    /\ mbr_call.op = "get_partition" /\ mbr_call.partno = 1
    /\ mbr.part_tab1 = C10_Example /\ mbr_result.val.nsec = <<0, 2048>>

\* the 16 bytes of the card's sector 0 at byte offset 446 + 16 * (n - 1)
C11_SlotBytes(n) == [i \in 1..16 |-> Sector0(disk)[446 + 16 * (n - 1) + i]]

\* C11: on an MBR built from the card's sector 0, get_partition(n) for n in 1..4
\* returns the decode of the 16 bytes at byte offset 446 + 16 * (n - 1) and the
\* MBR still holds the sector's bytes afterwards; for any other n it panics and
\* returns no entry.
C11_GetPartitionDecodesSlot ==
    (mbr_call.op = "get_partition" /\ sd_call.engine = "ok") =>
        /\ \A i \in 1..446 : mbr.code[i] = Sector0(disk)[i]
        /\ \A n \in 1..4 : C10_Slot(mbr, n) = C11_SlotBytes(n)
        /\ mbr.sigval = <<Sector0(disk)[511], Sector0(disk)[512]>>
        /\ IF mbr_call.partno \in 1..4
           THEN /\ kernel = "running"
                /\ mbr_result.kind = "value"
                /\ C10_Decoded(C11_SlotBytes(mbr_call.partno), mbr_result.val)
                /\ mbr_result.val.chs_start = <<C11_SlotBytes(mbr_call.partno)[2],
                                                C11_SlotBytes(mbr_call.partno)[3],
                                                C11_SlotBytes(mbr_call.partno)[4]>>
           ELSE kernel = "panic" /\ mbr_result = Panicked

\* C11 witness: slot 3, whose last byte is 0x80, was asked for and decoded
C11_Witness ==
    /\ mbr_call.op = "get_partition" /\ mbr_call.partno = 3 /\ sd_call.engine = "ok"
    /\ disk.parts[3] = TopByteSlot /\ disk.parts[2] = ZeroSlot
    /\ mbr_result.kind = "value" /\ mbr_result.val.nsec = <<32768, 0>>

\* C11 witness of the other case: partition number 0 was asked for and the call
\* panicked
C11_WitnessInvalid ==
    mbr_call.op = "get_partition" /\ mbr_call.partno = 0 /\ mbr_result = Panicked

----------------------------------------------------------------------------
(* fat32.rs: checked u32 arithmetic, as the build compiles it *)

Ok(v) == [panic |-> FALSE, val |-> v]
Panic == [panic |-> TRUE]

\* a << n: a shift by 32 or more panics where overflow is checked and is taken
\* modulo 32 where it is not
shl(x, n, checks) ==
    IF n < 32 THEN Ok(Shl(x, n))
    ELSE IF checks THEN Panic
    ELSE Ok(Shl(x, n % 32))

\* a + b: panics on overflow where checked, wraps where not
add(x, y, checks) ==
    LET lo == x[2] + y[2]
        hi == x[1] + y[1] + (lo \div Limb)
    IN  IF hi >= Limb /\ checks THEN Panic ELSE Ok(<<hi % Limb, lo % Limb>>)

\* a * b, by columns of byte products
MulColumn(a, b, k) ==
    LET Term(i) == IF k - i \in 0..3 THEN a[i + 1] * b[k - i + 1] ELSE 0
    IN  Term(0) + Term(1) + Term(2) + Term(3)

RECURSIVE MulDigits(_, _, _, _)
MulDigits(a, b, k, carry) ==
    IF k = 8 THEN <<>>
    ELSE LET t == (IF k <= 6 THEN MulColumn(a, b, k) ELSE 0) + carry
         IN  <<t % 256>> \o MulDigits(a, b, k + 1, t \div 256)

mul(x, y, checks) ==
    LET d == MulDigits(U32Bytes(x), U32Bytes(y), 0, 0)
        over == \E k \in 5..8 : d[k] # 0
    IN  IF over /\ checks THEN Panic
        ELSE Ok(<<d[3] + 256 * d[4], d[1] + 256 * d[2]>>)

\* a - k for a >= k
U32SubNat(x, k) ==
    IF x[2] >= k THEN <<x[1], x[2] - k>> ELSE <<x[1] - 1, x[2] + Limb - k>>

----------------------------------------------------------------------------
(* fat32.rs: cluster chains *)

\* arr_to_u32_le: res += (arr[i] as u32) << (32 - i * 8), for i in 0..4
RECURSIVE arr_to_u32_le_from(_, _, _, _)
arr_to_u32_le_from(arr, i, res, checks) ==
    IF i = 4 THEN Ok(res)
    ELSE LET term == shl(<<0, arr[i + 1]>>, 32 - i * 8, checks) IN
         IF term.panic THEN Panic
         ELSE LET sum == add(res, term.val, checks) IN
              IF sum.panic THEN Panic
              ELSE arr_to_u32_le_from(arr, i + 1, sum.val, checks)

arr_to_u32_le(arr, checks) == arr_to_u32_le_from(arr, 0, U32Zero, checks)

\* Fat32Inner::get_next_cluster_val: idx is the cluster number itself; the four
\* bytes fat[idx .. idx + 3] are indexed (out of bounds panics) and decoded
get_next_cluster_val(f, last_cluster_idx, checks) ==
    IF last_cluster_idx[1] # 0 \/ last_cluster_idx[2] + 3 >= Len(f.fat) THEN Panic
    ELSE LET idx == last_cluster_idx[2]
             val_arr == <<f.fat[idx + 1], f.fat[idx + 2], f.fat[idx + 3], f.fat[idx + 4]>>
         IN  arr_to_u32_le(val_arr, checks)

\* C13's mutant: the two reserved cluster numbers are not taken off
cluster_to_lba_from_zero(f, cluster_num, checks) ==
    IF ~U32Le(<<0, 2>>, cluster_num) THEN Panic
    ELSE LET prod == mul(cluster_num, f.sectors_per_cluster, checks) IN
         IF prod.panic THEN Panic
         ELSE add(f.clusters_begin_lba, prod.val, checks)

\* Fat32Inner::cluster_to_lba
cluster_to_lba(f, cluster_num, checks) ==
    IF ~U32Le(<<0, 2>>, cluster_num) THEN Panic
    ELSE LET prod == mul(U32SubNat(cluster_num, 2), f.sectors_per_cluster, checks) IN
         IF prod.panic THEN Panic
         ELSE add(f.clusters_begin_lba, prod.val, checks)

\* the loop condition of both walks: the cluster number is none of Last, Free,
\* Bad, Reserved
StopTypes == {"LastCluster", "FreeCluster", "BadCluster", "ReservedCluster"}

MaxWalk == 4         \* a walk is followed for at most MaxWalk iterations

\* FAT images: entry c at bytes 4c .. 4c + 3, little-endian, 128 entries
FatImage(entries) ==
    [k \in 1..SectorSize |->
        LET c == (k - 1) \div 4
            e == IF c \in DOMAIN entries THEN entries[c] ELSE U32Zero
        IN  U32Bytes(e)[((k - 1) % 4) + 1]]

EndOfChain == <<4095, 65535>>       \* 0x0FFF_FFFF
MediaEntry == <<4095, 65528>>       \* 0x0FFF_FFF8

Fats ==
    {FatImage(0 :> MediaEntry @@ 1 :> EndOfChain @@ 2 :> <<0, 5>> @@ 5 :> <<0, 9>>
                @@ 9 :> EndOfChain),
     FatImage(2 :> <<0, 5>> @@ 5 :> <<0, 9>> @@ 9 :> EndOfChain),
     FatImage(0 :> MediaEntry @@ 1 :> EndOfChain @@ 2 :> <<0, 3>> @@ 3 :> <<0, 4>>
                @@ 4 :> MediaEntry),
     FatImage(0 :> MediaEntry @@ 1 :> EndOfChain @@ 2 :> EndOfChain),
     FatImage(0 :> <<0, 4>> @@ 1 :> <<2048, 0>> @@ 2 :> <<61440, 5>> @@ 5 :> <<61440, 9>>
                @@ 9 :> <<65535, 65535>>),
     \* bytes 2..5 = 8,0,0,0; bytes 8..11 = 16,0,0,0; bytes 16..19 = FF,0F,FF,FF
     FatImage(0 :> <<8, 0>> @@ 2 :> <<0, 16>> @@ 4 :> <<65535, 4095>>),
     \* the same with the top 4 bits of the value at bytes 2..5 set (byte 3 = F0)
     FatImage(0 :> <<61448, 0>> @@ 2 :> <<0, 16>> @@ 4 :> <<65535, 4095>>),
     \* entries 2 -> 5 -> 2 at byte offsets 8 and 20
     FatImage(2 :> <<0, 5>> @@ 5 :> <<0, 2>>),
     \* bytes 2..5 = 8,0,0,0; bytes 8..11 = 2,0,0,0
     FatImage(0 :> <<8, 0>> @@ 2 :> <<0, 2>>),
     <<>>}

StartClusters ==
    {<<0, 0>>, <<0, 1>>, <<0, 2>>, <<0, 3>>, <<0, 5>>, <<0, 9>>, <<0, 600>>,
     <<4095, 65520>>, <<4095, 65527>>, <<4095, 65528>>, <<4095, 65535>>,
     <<65535, 65527>>, <<61440, 1>>, <<61440, 2>>}

\* a constructed driver with its FAT loaded, on an initialized card
ChainInit ==
    /\ disk \in {d \in Disks : d.code = 144}
    /\ card_ready = TRUE
    /\ initialized = TRUE
    /\ sd_call = NoCall
    /\ sd_result = [ok |-> TRUE, data |-> <<>>]
    /\ MbrIdle
    /\ overflow_checks \in BOOLEAN
    /\ fat32 \in [fat : Fats, sectors_per_cluster : {<<0, 1>>, <<0, 2>>},
                  clusters_begin_lba : {<<0, 40>>}]
    /\ walk = NoWalk
    /\ chain_result = NoResult
    /\ fat32_call = NoCall
    /\ fat32_result = NoResult

\* entry of get_cluster_chain_length / get_cluster_chain_data: the locals
ChainStart(op, start_cluster) ==
    /\ kernel = "running"
    /\ walk.pc \in {"idle", "done"}
    /\ walk' = [pc |-> "loop", op |-> op, start_cluster |-> start_cluster,
                cluster |-> start_cluster, chain_length |-> 0, data |-> <<>>,
                visited |-> <<>>, fat_reads |-> <<>>, sd_reads |-> <<>>]
    /\ chain_result' = NoResult
    /\ UNCHANGED <<kernel, mbr, mbr_call, mbr_result, overflow_checks, fat32,
                   fat32_call, fat32_result, sdVars, clsVars>>

\* Fat32Inner::get_cluster_chain_length: one evaluation of the loop condition and,
\* when it holds, one run of the body
ChainLengthStep ==
    /\ kernel = "running"
    /\ walk.pc = "loop" /\ walk.op = "length"
    /\ Len(walk.visited) < MaxWalk
    /\ LET t == get_fat_entry_type(walk.cluster) IN
       IF t = "panic"
       THEN kernel' = "panic" /\ walk' = [walk EXCEPT !.pc = "panic"]
            /\ chain_result' = Panicked
       ELSE IF t \in StopTypes
       THEN kernel' = kernel /\ walk' = [walk EXCEPT !.pc = "done"]
            /\ chain_result' = Returned(walk.chain_length)
       ELSE LET nxt == get_next_cluster_val(fat32, walk.cluster, overflow_checks)
                read == [walk EXCEPT !.visited = Append(@, walk.cluster),
                                     !.fat_reads = Append(@, walk.cluster)]
            IN  IF nxt.panic
                THEN kernel' = "panic" /\ walk' = [read EXCEPT !.pc = "panic"]
                     /\ chain_result' = Panicked
                ELSE kernel' = kernel
                     /\ walk' = [read EXCEPT !.cluster = nxt.val,
                                             !.chain_length = @ + 1]
                     /\ chain_result' = chain_result
    /\ UNCHANGED <<mbr, mbr_call, mbr_result, overflow_checks, fat32, fat32_call,
                   fat32_result, sdVars, clsVars>>

\* Fat32Inner::get_cluster_chain_data: one evaluation of the loop condition and,
\* when it holds, one run of the body (one pi_sec_read, then the next cluster)
ChainDataStep(outcome) ==
    /\ kernel = "running"
    /\ walk.pc = "loop" /\ walk.op = "data"
    /\ Len(walk.visited) < MaxWalk
    /\ LET t == get_fat_entry_type(walk.cluster) IN
       IF t = "panic"
       THEN kernel' = "panic" /\ walk' = [walk EXCEPT !.pc = "panic"]
            /\ chain_result' = Panicked /\ UNCHANGED <<sd_call, sd_result, disk>>
       ELSE IF t \in StopTypes
       THEN kernel' = kernel /\ walk' = [walk EXCEPT !.pc = "done"]
            /\ chain_result' = Returned(walk.data)
            /\ UNCHANGED <<sd_call, sd_result, disk>>
       ELSE LET lba == cluster_to_lba(fat32, walk.cluster, overflow_checks) IN
            IF lba.panic
            THEN kernel' = "panic"
                 /\ walk' = [walk EXCEPT !.pc = "panic", !.visited = Append(@, walk.cluster)]
                 /\ chain_result' = Panicked /\ UNCHANGED <<sd_call, sd_result, disk>>
            ELSE LET read_size == fat32.sectors_per_cluster[2]
                     new_data == pi_sec_read(disk, initialized, lba.val, read_size, outcome)
                     nxt == get_next_cluster_val(fat32, walk.cluster, overflow_checks)
                     call == [op |-> "read", lba |-> lba.val, nsec |-> read_size,
                              write |-> emmc_read_sectors_write(lba.val, read_size),
                              engine |-> outcome, was_initialized |-> initialized]
                     read == [walk EXCEPT !.visited = Append(@, walk.cluster),
                                          !.sd_reads = Append(@, call),
                                          !.data = @ \o new_data.data,
                                          !.fat_reads = Append(@, walk.cluster)]
                 IN  /\ sd_call' = call
                     /\ sd_result' = new_data
                     /\ disk' = card_after_read(disk, lba.val, read_size, outcome)
                     /\ IF nxt.panic
                        THEN kernel' = "panic" /\ walk' = [read EXCEPT !.pc = "panic"]
                             /\ chain_result' = Panicked
                        ELSE kernel' = kernel /\ walk' = [read EXCEPT !.cluster = nxt.val]
                             /\ chain_result' = chain_result
    /\ UNCHANGED <<mbr, mbr_call, mbr_result, overflow_checks, fat32, fat32_call,
                   fat32_result, card_ready, initialized, clsVars>>

ChainNext ==
    \/ \E op \in {"length", "data"}, c \in StartClusters : ChainStart(op, c)
    \/ ChainLengthStep
    \/ \E o \in TransferOutcomes(card_ready) : ChainDataStep(o)

InitChain == ClsInit /\ ChainInit

SpecChain == InitChain /\ [][ChainNext]_vars

\* the FAT as documented: the entry of cluster c is the little-endian value of the
\* four bytes at byte offset c * 4
DocEntry(fat, c) == <<fat[4 * c + 3] + 256 * fat[4 * c + 4], fat[4 * c + 1] + 256 * fat[4 * c + 2]>>

DocIsLast(e) == e[1] % 4096 = 4095 /\ e[2] >= 65528
DocIsNext(e, fat) == e[1] % 4096 = 0 /\ e[2] >= 2 /\ 4 * e[2] + 4 <= Len(fat)

\* n for the documented chain c -> ... -> Last of n clusters; -1 when the entries
\* from c on form no such chain within `fuel` clusters
RECURSIVE DocChainLength(_, _, _)
DocChainLength(fat, c, fuel) ==
    IF fuel = 0 THEN -1
    ELSE LET e == DocEntry(fat, c) IN
         IF DocIsLast(e) THEN 1
         ELSE IF DocIsNext(e, fat)
         THEN LET r == DocChainLength(fat, e[2], fuel - 1) IN IF r < 0 THEN -1 ELSE r + 1
         ELSE -1

DocStartsChain(fat, start) ==
    /\ start[1] = 0 /\ start[2] >= 2 /\ 4 * start[2] + 4 <= Len(fat)
    /\ DocChainLength(fat, start[2], MaxWalk) > 0

\* C3 as claimed: on a FAT that holds, entry c at byte offset c * 4, the chain
\* c1 -> ... -> cn -> Last, get_cluster_chain_length(c1) returns n.
C3_ChainLengthCountsClusters ==
    (walk.pc = "done" /\ walk.op = "length" /\ DocStartsChain(fat32.fat, walk.start_cluster)) =>
        chain_result = Returned(DocChainLength(fat32.fat, walk.start_cluster[2], MaxWalk))

RECURSIVE C4_Concat(_, _)
C4_Concat(reads, i) ==
    IF i > Len(reads) THEN <<>>
    ELSE DiskBytes(disk, reads[i].lba, reads[i].nsec) \o C4_Concat(reads, i + 1)

\* C4 as claimed, for the walks all of whose transfers the engine completed:
\* get_cluster_chain_data issues one read per visited cluster c, at
\* clusters_begin_lba + (c - 2) * sectors_per_cluster for sectors_per_cluster
\* sectors, in chain order, and returns the concatenation of the sectors read: n
\* visited clusters give n * sectors_per_cluster * 512 bytes.
C4_ChainDataIsWholeClusters ==
    (/\ walk.pc = "done" /\ walk.op = "data"
     /\ \A i \in 1..Len(walk.sd_reads) : walk.sd_reads[i].engine = "ok") =>
        LET spc == fat32.sectors_per_cluster[2] IN
        /\ Len(walk.sd_reads) = Len(walk.visited)
        /\ \A i \in 1..Len(walk.sd_reads) :
               /\ walk.sd_reads[i].lba =
                      U32FromNat(fat32.clusters_begin_lba[2] + (walk.visited[i][2] - 2) * spc)
               /\ walk.sd_reads[i].nsec = spc
        /\ Len(chain_result.val) = Len(walk.visited) * spc * 512
        /\ chain_result.val = C4_Concat(walk.sd_reads, 1)

\* start clusters that classify as Free, Reserved, Bad or Last
C5_StartStops(x) ==
    LET v == Low28(x) IN
    \/ v \in {<<0, 0>>, <<0, 1>>, <<4095, 65527>>}
    \/ U32In(v, <<4095, 65528>>, <<4095, 65535>>)

\* C5: a walk whose start cluster classifies as Bad, Reserved, Free or Last reads no
\* FAT byte, issues no block-device read, runs no loop iteration and does not
\* panic; get_cluster_chain_length returns 0 and get_cluster_chain_data returns
\* the empty byte sequence.
C5_StoppingStartReadsNothing ==
    (walk.pc # "idle" /\ C5_StartStops(walk.start_cluster)) =>
        /\ kernel = "running"
        /\ walk.pc \in {"loop", "done"}
        /\ walk.fat_reads = <<>> /\ walk.sd_reads = <<>> /\ walk.visited = <<>>
        /\ (walk.pc = "done" /\ walk.op = "length" => chain_result.val = 0)
        /\ (walk.pc = "done" /\ walk.op = "data" => chain_result.val = <<>>)

\* C5 witness: a data walk started on the bad-cluster mark 0xFFFF_FFF7 has returned
C5_Witness ==
    /\ walk.pc = "done" /\ walk.op = "data" /\ walk.start_cluster = <<65535, 65527>>
    /\ chain_result = Returned(<<>>)

----------------------------------------------------------------------------
(* fat32.rs: the volume driver: construction, validation, FAT load *)

\* arr_to_u16: res += (arr[i] as u16) << (i * 8), for i in 0..2
arr_to_u16(arr) == ((arr[1] * 2^0) % Limb) + ((arr[2] * 2^8) % Limb)

\* arr_to_u32 and sl_to_u32: res += (arr[i] as u32) << (i * 8), for i in 0..4; the
\* four terms occupy different bytes, so the sum never overflows
RECURSIVE arr_to_u32_from(_, _, _)
arr_to_u32_from(arr, i, res) ==
    IF i = 4 THEN res
    ELSE arr_to_u32_from(arr, i + 1, add(res, Shl(<<0, arr[i + 1]>>, i * 8), FALSE).val)

\* a decoder that shifts as arr_to_u32_le does in a build without overflow
\* checks (variant of arr_to_u32)
arr_to_u32_shifted_from_32(arr) == arr_to_u32_le(arr, FALSE).val

arr_to_u32(arr) == arr_to_u32_from(arr, 0, U32Zero)

sl_to_u32(sl) == arr_to_u32_from(sl, 0, U32Zero)

\* postcard::from_bytes::<BootSector>: the fields are consecutive byte arrays, in
\* declaration order
BootSector_from_bytes(b) ==
    [asm_code |-> Slice(b, 0, 3),
     oem |-> Slice(b, 3, 11),
     bytes_per_sec |-> Slice(b, 11, 13),
     sec_per_cluster |-> b[14],
     reserved_area_nsec |-> Slice(b, 14, 16),
     nfats |-> b[17],
     max_files |-> Slice(b, 17, 19),
     fs_nsec |-> Slice(b, 19, 21),
     media_type |-> b[22],
     zero |-> Slice(b, 22, 24),
     sec_per_track |-> Slice(b, 24, 26),
     n_heads |-> Slice(b, 26, 28),
     hidden_secs |-> Slice(b, 28, 32),
     nsec_in_fs |-> Slice(b, 32, 36),
     nsec_per_fat |-> Slice(b, 36, 40),
     mirror_flags |-> Slice(b, 40, 42),
     version |-> Slice(b, 42, 44),
     first_cluster |-> Slice(b, 44, 48),
     info_sec_num |-> Slice(b, 48, 50),
     backup_boot_loc |-> Slice(b, 50, 52),
     logical_drive_num |-> b[65],
     extended_sig |-> b[67],
     serial_num |-> Slice(b, 67, 71),
     volume_label |-> Slice(b, 71, 82),
     fs_type |-> Slice(b, 82, 90),
     sig |-> Slice(b, 510, 512)]

\* FSInfo::new(info_sector)
FSInfo_new(info_sector) ==
    [sig1 |-> sl_to_u32(Slice(info_sector, 0, 4)),
     sig2 |-> sl_to_u32(Slice(info_sector, 484, 488)),
     free_cluster_count |-> sl_to_u32(Slice(info_sector, 488, 492)),
     next_free_cluster |-> sl_to_u32(Slice(info_sector, 492, 496)),
     sig3 |-> sl_to_u32(Slice(info_sector, 508, 512))]

\* one pi_sec_read as the driver's log keeps it
ReadLog(lba, nsec, outcome) == [lba |-> lba, nsec |-> nsec, engine |-> outcome]

\* Fat32Inner::new(partition, sd): the two sector reads, the decode and the derived
\* geometry; [panic |-> TRUE] when an arithmetic step overflows in a checked build
Fat32Inner_new(partition, d, checks, o1, o2) ==
    LET lba_start == partition.lba_start
        boot_sector_vec == pi_sec_read(d, TRUE, lba_start, 1, o1)
        boot_sec == BootSector_from_bytes(boot_sector_vec.data)
        if_sec_num == <<0, arr_to_u16(boot_sec.info_sec_num)>>
        info_lba == add(lba_start, if_sec_num, checks)
        reads1 == <<ReadLog(lba_start, 1, o1)>>
    IN  IF info_lba.panic THEN [panic |-> TRUE, reads |-> reads1]
        ELSE
        LET info_sector_vec == pi_sec_read(d, TRUE, info_lba.val, 1, o2)
            info == FSInfo_new(info_sector_vec.data)
            reads2 == Append(reads1, ReadLog(info_lba.val, 1, o2))
            fat_begin_lba == add(lba_start, <<0, arr_to_u16(boot_sec.reserved_area_nsec)>>,
                                 checks)
            fats_nsec == mul(<<0, boot_sec.nfats>>, arr_to_u32(boot_sec.nsec_per_fat), checks)
            cluster_begin_lba ==
                IF fat_begin_lba.panic \/ fats_nsec.panic THEN Panic
                ELSE add(fat_begin_lba.val, fats_nsec.val, checks)
            fat_bytes == mul(arr_to_u32(boot_sec.nsec_per_fat), <<0, 512>>, checks)
        IN  IF fat_begin_lba.panic \/ cluster_begin_lba.panic \/ fat_bytes.panic
            THEN [panic |-> TRUE, reads |-> reads2]
            ELSE [panic |-> FALSE, reads |-> reads2,
                  val |-> [lba_start |-> lba_start,
                           fat_begin_lba |-> fat_begin_lba.val,
                           clusters_begin_lba |-> cluster_begin_lba.val,
                           sectors_per_cluster |-> <<0, boot_sec.sec_per_cluster>>,
                           root_dir_first_cluster |-> arr_to_u32(boot_sec.first_cluster),
                           n_entries |-> Shr(fat_bytes.val, 2),
                           fat |-> <<>>,
                           boot_sec |-> boot_sec,
                           info |-> info]]

\* a well-formed volume: 512-byte sectors, 2 sectors per cluster, 32 reserved
\* sectors, two FATs of 1 sector, root directory in cluster 2
GoodVol ==
    [bytes_per_sec |-> 512, sec_per_cluster |-> 2, reserved_area_nsec |-> 32,
     nfats |-> 2, max_files |-> 0, fs_nsec |-> 0, zero |-> 0,
     nsec_in_fs |-> <<0, 4096>>, nsec_per_fat |-> <<0, 1>>, first_cluster |-> <<0, 2>>,
     info_sec_num |-> 1, backup_boot_loc |-> 6, extended_sig |-> 41, sig |-> <<85, 170>>]

\* volumes that break one of the checked conditions
BadVols ==
    {[GoodVol EXCEPT !.bytes_per_sec = v] : v \in {1024, 513}}
        \cup {[GoodVol EXCEPT !.sec_per_cluster = v] : v \in {3}}
        \cup {[GoodVol EXCEPT !.nfats = v] : v \in {1}}
        \cup {[GoodVol EXCEPT !.sig = v] : v \in {<<170, 85>>, <<85, 0>>}}
        \cup {[GoodVol EXCEPT !.max_files = v] : v \in {512}}
        \cup {[GoodVol EXCEPT !.fs_nsec = v] : v \in {1}}
        \cup {[GoodVol EXCEPT !.zero = v] : v \in {256}}
        \cup {[GoodVol EXCEPT !.nsec_in_fs = v] : v \in {<<0, 0>>}}
        \cup {[GoodVol EXCEPT !.info_sec_num = v] : v \in {0, 257}}
        \cup {[GoodVol EXCEPT !.backup_boot_loc = v] : v \in {0, 262}}
        \cup {[GoodVol EXCEPT !.extended_sig = v] : v \in {40}}
        \cup {[GoodVol EXCEPT !.nfats = 1, !.extended_sig = 40]}

\* volumes that pass the checks with other geometry
Geometry(v, r, c) ==
    [GoodVol EXCEPT !.nsec_per_fat = v, !.reserved_area_nsec = r, !.first_cluster = c]

OtherGoodVols ==
    {[GoodVol EXCEPT !.sec_per_cluster = v] : v \in {0, 8}}
        \cup {[GoodVol EXCEPT !.nsec_in_fs = v] : v \in {<<1, 0>>}}
        \cup {Geometry(<<0, 8>>, 32, <<0, 2>>), Geometry(<<128, 0>>, 32, <<4660, 22136>>),
              Geometry(<<128, 0>>, 65535, <<0, 2>>),
              Geometry(<<32767, 65535>>, 65535, <<0, 2>>)}

\* partition slots that place the volume at the end of the 32-bit address space
HighLbaSlot == <<128, 0, 0, 0, 12, 0, 0, 0, 255, 255, 255, 255, 0, 8, 0, 0>>

\* a freshly formatted FAT: media entry, end-of-chain mark, root directory of one
\* cluster
FormattedFat == FatImage(0 :> MediaEntry @@ 1 :> EndOfChain @@ 2 :> EndOfChain)

VolCard(slot1, v, recs) ==
    [code |-> 144, parts |-> <<slot1, ZeroSlot, ZeroSlot, ZeroSlot>>, sig |-> <<85, 170>>,
     vol |-> v, fat |-> FormattedFat, dir |-> recs]

\* directory records found on the cards: "FILE    TXT", a deleted name, a name
\* holding the byte 0xFF
NameFile == <<70, 73, 76, 69, 32, 32, 32, 32, 84, 88, 84>>
NameDeleted == <<229, 73, 76, 69, 32, 32, 32, 32, 84, 88, 84>>
NameSub == <<83, 85, 66, 32, 32, 32, 32, 32, 32, 32, 32>>
NameHigh == <<70, 255, 76, 69, 32, 32, 32, 32, 84, 88, 84>>

Rec(name, attr, hi, lo, size) ==
    [name |-> name, attr |-> attr, hi |-> hi, lo |-> lo, size |-> size]

RecFile == Rec(NameFile, 32, 0, 5, <<0, 1234>>)
RecDeleted == Rec(NameDeleted, 32, 0, 6, <<0, 77>>)
RecLfn == Rec(<<65, 102, 0, 105, 0, 108, 0, 101, 0, 46, 0>>, 15, 0, 0, <<0, 0>>)
RecVolLabel == Rec(NameSub, 8, 0, 0, <<0, 0>>)
RecDir == Rec(NameSub, 16, 1, 2, <<0, 0>>)
RecReadOnly == Rec(NameFile, 1, 0, 7, <<0, 10>>)
RecHidden == Rec(NameFile, 2, 0, 8, <<0, 11>>)
RecSystem == Rec(NameFile, 4, 0, 9, <<0, 12>>)
RecPlain == Rec(NameSub, 0, 4660, 22136, <<4660, 22136>>)
RecHighName == Rec(NameHigh, 32, 0, 10, <<0, 13>>)

\* the directories of the cards' root clusters: the 96-byte example (deleted, long
\* name, file), directories with every attribute, a full sector whose 16th record
\* is a directory, an empty one, one with a name that is not UTF-8
Dirs ==
    {<<RecDeleted, RecLfn, RecFile>>,
     <<RecFile, RecReadOnly, RecDir>>,
     <<RecHidden, RecSystem, RecVolLabel, RecPlain>>,
     <<RecDir, RecFile, RecPlain>>,
     [j \in 1..16 |-> IF j = 16 THEN RecDir ELSE IF j % 2 = 1 THEN RecFile ELSE RecPlain],
     <<>>,
     <<RecFile, RecHighName>>}

\* the cards of the volume specification: every volume under one directory
VolDisks ==
    {VolCard(Fat32LbaSlot, v, <<RecDeleted, RecLfn, RecFile>>) :
         v \in {GoodVol} \cup BadVols \cup OtherGoodVols}
        \cup {VolCard(HighLbaSlot, GoodVol, <<RecDeleted, RecLfn, RecFile>>)}

\* the cards of the directory specification: every directory on the well-formed
\* volume
DirDisks == {VolCard(Fat32LbaSlot, GoodVol, recs) : recs \in Dirs}

\* a u32 as a number; the numbers of the model end at 2^31 - 1 and a larger sector
\* count is carried as that (a read depends on its count being 0 or not only)
U32ToNat(x) == IF x[1] < 32768 THEN x[1] * Limb + x[2] ELSE 2147483647

NoFat32 == [uninit |-> TRUE]        \* the FAT32 static before Fat32::new

\* the kernel after MBR::new on a working card: the MBR holds sector 0, no FAT32
\* driver yet
VolInit(disks) ==
    /\ disk \in disks
    /\ card_ready = TRUE
    /\ initialized = TRUE
    /\ sd_call = [op |-> "read", lba |-> U32Zero, nsec |-> 1,
                  write |-> emmc_read_sectors_write(U32Zero, 1),
                  engine |-> "ok", was_initialized |-> TRUE]
    /\ sd_result = pi_sec_read(disk, TRUE, U32Zero, 1, "ok")
    /\ kernel = "running"
    /\ mbr = MBRInner_new(Sector0(disk))
    /\ mbr_call = [op |-> "new"]
    /\ mbr_result = NoResult
    /\ overflow_checks \in BOOLEAN
    /\ fat32 = NoFat32
    /\ walk = NoWalk
    /\ chain_result = NoResult
    /\ fat32_call = NoCall
    /\ fat32_result = NoResult

\* the last pi_sec_read of a log
LastRead(reads) == reads[Len(reads)]

\* what Fat32::new leaves behind, given the partition entry it fetched, the
\* outcome of Fat32Inner::new and the card's state after pi_sd_init
Fat32_new_update(first_partition, inner, ready) ==
    /\ card_ready' = ready
    /\ initialized' = TRUE
    /\ mbr_call' = [op |-> "get_partition", partno |-> 1]
    /\ mbr_result' = Returned(first_partition)
    /\ sd_call' = [op |-> "read", lba |-> LastRead(inner.reads).lba,
                   nsec |-> LastRead(inner.reads).nsec,
                   write |-> emmc_read_sectors_write(LastRead(inner.reads).lba,
                                                     LastRead(inner.reads).nsec),
                   engine |-> LastRead(inner.reads).engine, was_initialized |-> TRUE]
    /\ disk' = card_after_reads(disk, inner.reads)
    /\ sd_result' = pi_sec_read(disk, TRUE, LastRead(inner.reads).lba,
                                LastRead(inner.reads).nsec, LastRead(inner.reads).engine)
    /\ fat32_call' = [op |-> "new", arg |-> first_partition, reads |-> inner.reads]
    /\ IF inner.panic
       THEN fat32' = fat32 /\ fat32_result' = Panicked /\ kernel' = "panic"
       ELSE fat32' = inner.val /\ fat32_result' = Returned(TRUE) /\ kernel' = kernel

\* <PartitionEntry as Display>::fmt evaluates chs_start[0] << 16 + chs_start[1] <<
\* 8 + chs_start[2] on u8, i.e. (chs_start[0] << (16 + chs_start[1])) << (8 +
\* chs_start[2]): the first shift of a u8 is by 16 or more, which panics in a build
\* with overflow checks (as does a sum above 255) and is masked without them
PartitionEntry_fmt_panics(part, checks) ==
    checks /\ (16 + part.chs_start[2] > 255 \/ 16 + part.chs_start[2] >= 8)

\* Fat32::new when printing the partition entry panics: Fat32Inner::new is not
\* reached
Fat32_new_fmt_panic(first_partition, ready) ==
    /\ card_ready' = ready
    /\ initialized' = TRUE
    /\ mbr_call' = [op |-> "get_partition", partno |-> 1]
    /\ mbr_result' = Returned(first_partition)
    /\ fat32_call' = [op |-> "new", arg |-> first_partition, reads |-> <<>>]
    /\ fat32_result' = Panicked
    /\ kernel' = "panic"
    /\ UNCHANGED <<sd_call, sd_result, fat32, disk>>

\* Fat32::new: pi_sd_init (whose result is always Ok), mbr_get_partition(1), the
\* println! of the entry, Fat32Inner::new; a card that was not brought up fails
\* every transfer
Fat32_new(o_init, o1, o2) ==
    /\ kernel = "running"
    /\ mbr # NoMbr
    /\ fat32 = NoFat32
    /\ IF PartitionEntry_fmt_panics(get_partition(mbr, 1), overflow_checks)
       THEN Fat32_new_fmt_panic(get_partition(mbr, 1), emmc_init_card(o_init))
       ELSE Fat32_new_update(get_partition(mbr, 1),
                             Fat32Inner_new(get_partition(mbr, 1), disk, overflow_checks,
                                            IF emmc_init_card(o_init) THEN o1 ELSE "error",
                                            IF emmc_init_card(o_init) THEN o2 ELSE "error"),
                             emmc_init_card(o_init))
    /\ UNCHANGED <<mbr, overflow_checks, walk, chain_result, clsVars>>

\* C14's mutant: the backup boot sector's location is not looked at
fat32_volume_id_check_asserts_no_backup(f) ==
    /\ arr_to_u16(f.boot_sec.bytes_per_sec) = 512
    /\ f.boot_sec.nfats = 2
    /\ arr_to_u16(f.boot_sec.sig) = 43605
    /\ f.boot_sec.sec_per_cluster % 2 = 0
    /\ arr_to_u16(f.boot_sec.max_files) = 0
    /\ arr_to_u16(f.boot_sec.fs_nsec) = 0
    /\ arr_to_u16(f.boot_sec.zero) = 0
    /\ arr_to_u32(f.boot_sec.nsec_in_fs) # U32Zero
    /\ arr_to_u16(f.boot_sec.info_sec_num) = 1
    /\ f.boot_sec.extended_sig = 41

\* Fat32Inner::fat32_volume_id_check: the conjunction of its assert!s; the function
\* returns () when all hold and panics at the first that does not
fat32_volume_id_check_asserts(f) ==
    /\ arr_to_u16(f.boot_sec.bytes_per_sec) = 512
    /\ f.boot_sec.nfats = 2
    /\ arr_to_u16(f.boot_sec.sig) = 43605
    /\ f.boot_sec.sec_per_cluster % 2 = 0
    /\ arr_to_u16(f.boot_sec.max_files) = 0
    /\ arr_to_u16(f.boot_sec.fs_nsec) = 0
    /\ arr_to_u16(f.boot_sec.zero) = 0
    /\ arr_to_u32(f.boot_sec.nsec_in_fs) # U32Zero
    /\ arr_to_u16(f.boot_sec.info_sec_num) = 1
    /\ arr_to_u16(f.boot_sec.backup_boot_loc) = 6
    /\ f.boot_sec.extended_sig = 41

\* the frame of a call that only reads the driver
VolReadOnlyFrame ==
    UNCHANGED <<fat32, disk, card_ready, initialized, sd_call, sd_result, mbr, mbr_call,
                mbr_result, overflow_checks, walk, chain_result, clsVars>>

\* Fat32::fat32_vol_id_check
fat32_vol_id_check ==
    /\ kernel = "running"
    /\ fat32 # NoFat32
    /\ fat32_call' = [op |-> "vol_id_check", arg |-> 0, reads |-> <<>>]
    /\ IF fat32_volume_id_check_asserts(fat32)
       THEN fat32_result' = Returned(TRUE) /\ kernel' = kernel
       ELSE fat32_result' = Panicked /\ kernel' = "panic"
    /\ VolReadOnlyFrame

\* Fat32::fat32_read_fat: one pi_sec_read(fat_begin_lba, nsec_per_fat); Ok(fat)
\* replaces self.fat, anything else panics
fat32_read_fat(outcome) ==
    /\ kernel = "running"
    /\ fat32 # NoFat32
    /\ LET nsec == U32ToNat(arr_to_u32(fat32.boot_sec.nsec_per_fat))
           fat == pi_sec_read(disk, initialized, fat32.fat_begin_lba, nsec, outcome)
       IN  /\ sd_call' = [op |-> "read", lba |-> fat32.fat_begin_lba, nsec |-> nsec,
                          write |-> emmc_read_sectors_write(fat32.fat_begin_lba, nsec),
                          engine |-> outcome, was_initialized |-> initialized]
           /\ sd_result' = fat
           /\ disk' = card_after_read(disk, fat32.fat_begin_lba, nsec, outcome)
           /\ fat32_call' = [op |-> "read_fat", arg |-> 0,
                             reads |-> <<ReadLog(fat32.fat_begin_lba, nsec, outcome)>>]
           /\ IF fat.ok
              THEN fat32' = [fat32 EXCEPT !.fat = fat.data]
                   /\ fat32_result' = Returned(TRUE) /\ kernel' = kernel
              ELSE fat32' = fat32 /\ fat32_result' = Panicked /\ kernel' = "panic"
    /\ UNCHANGED <<card_ready, initialized, mbr, mbr_call, mbr_result,
                   overflow_checks, walk, chain_result, clsVars>>

\* cluster numbers handed to cluster_to_lba
ClusterArgs ==
    {<<0, 0>>, <<0, 1>>, <<0, 2>>, <<0, 3>>, <<0, 600>>, <<32768, 1>>, <<65535, 65535>>}

\* Fat32Inner::cluster_to_lba(cluster_num), applied on the constructed driver
call_cluster_to_lba(cluster_num) ==
    /\ kernel = "running"
    /\ fat32 # NoFat32
    /\ fat32_call' = [op |-> "cluster_to_lba", arg |-> cluster_num, reads |-> <<>>]
    /\ LET lba == cluster_to_lba(fat32, cluster_num, overflow_checks) IN
       IF lba.panic
       THEN fat32_result' = Panicked /\ kernel' = "panic"
       ELSE fat32_result' = Returned(lba.val) /\ kernel' = kernel
    /\ VolReadOnlyFrame

----------------------------------------------------------------------------
(* fat32.rs: directories *)

\* a & b and a | b on 16-bit limbs, bit by bit
Bit(a, k) == (a \div 2^k) % 2
And16(a, b) ==
    Bit(a, 0) * Bit(b, 0) * 1 + Bit(a, 1) * Bit(b, 1) * 2 + Bit(a, 2) * Bit(b, 2) *
    4 + Bit(a, 3) * Bit(b, 3) * 8 + Bit(a, 4) * Bit(b, 4) * 16 + Bit(a, 5) * Bit(b,
    5) * 32 + Bit(a, 6) * Bit(b, 6) * 64 + Bit(a, 7) * Bit(b, 7) * 128 + Bit(a, 8) *
    Bit(b, 8) * 256 + Bit(a, 9) * Bit(b, 9) * 512 + Bit(a, 10) * Bit(b, 10) * 1024 +
    Bit(a, 11) * Bit(b, 11) * 2048 + Bit(a, 12) * Bit(b, 12) * 4096 + Bit(a, 13) *
    Bit(b, 13) * 8192 + Bit(a, 14) * Bit(b, 14) * 16384 + Bit(a, 15) * Bit(b, 15) *
    32768
Or16(a, b) == a + b - And16(a, b)

\* postcard::from_bytes::<Fat32Dirent>: the fields are consecutive byte arrays, in
\* declaration order
Fat32Dirent_from_bytes(b) ==
    [filename |-> Slice(b, 0, 11),
     attr |-> b[12],
     reserved |-> b[13],
     create_time_tenths |-> b[14],
     create_time |-> Slice(b, 14, 16),
     create_date |-> Slice(b, 16, 18),
     access_date |-> Slice(b, 18, 20),
     hi_start |-> Slice(b, 20, 22),
     mod_time |-> Slice(b, 22, 24),
     mod_date |-> Slice(b, 24, 26),
     lo_start |-> Slice(b, 26, 28),
     file_nbytes |-> Slice(b, 28, 32)]

\* Fat32Dirent::get_dirent_attr: self.attr & mask != 0, the mask by the attribute
get_dirent_attr(e, attr) ==
    CASE attr = "Fat32ReadOnly" -> And16(e.attr, 1) # 0
      [] attr = "Fat32Hidden" -> And16(e.attr, 2) # 0
      [] attr = "Fat32SystemFile" -> And16(e.attr, 4) # 0
      [] attr = "Fat32VolumeLabel" -> And16(e.attr, 8) # 0
      [] attr = "Fat32LongFileName" -> And16(e.attr, 15) # 0
      [] attr = "Fat32Dir" -> And16(e.attr, 16) # 0
      [] attr = "Fat32Archive" -> And16(e.attr, 32) # 0

dirent_is_lfn(e) == get_dirent_attr(e, "Fat32LongFileName")

dirent_is_vol_label(e) == And16(e.attr, 8) # 0

dirent_is_free(e) == LET x == e.filename[1] IN x = 0 \/ x = 229

\* C17's mutant: the two halves of the cluster number are taken for each other
dirent_cluster_id_swapped(e) ==
    LET hi_start == <<0, arr_to_u16(e.lo_start)>>
        lo_start == <<0, arr_to_u16(e.hi_start)>>
        shifted == Shl(hi_start, 16)
    IN  <<Or16(shifted[1], lo_start[1]), Or16(shifted[2], lo_start[2])>>

\* Fat32Dirent::dirent_cluster_id: hi_start << 16 | lo_start
dirent_cluster_id(e) ==
    LET hi_start == <<0, arr_to_u16(e.hi_start)>>
        lo_start == <<0, arr_to_u16(e.lo_start)>>
        shifted == Shl(hi_start, 16)
    IN  <<Or16(shifted[1], lo_start[1]), Or16(shifted[2], lo_start[2])>>

\* core::str::from_utf8: the length of the well-formed UTF-8 sequence that starts
\* at b[i], 0 when there is none
Cont(b, i, lo, hi) == i <= Len(b) /\ b[i] >= lo /\ b[i] <= hi
Utf8SeqLen(b, i) ==
    LET c == b[i] IN
    IF c < 128 THEN 1
    ELSE IF c \in 194..223 THEN (IF Cont(b, i + 1, 128, 191) THEN 2 ELSE 0)
    ELSE IF c = 224
         THEN (IF Cont(b, i + 1, 160, 191) /\ Cont(b, i + 2, 128, 191) THEN 3 ELSE 0)
    ELSE IF c = 237
         THEN (IF Cont(b, i + 1, 128, 159) /\ Cont(b, i + 2, 128, 191) THEN 3 ELSE 0)
    ELSE IF c \in 225..239
         THEN (IF Cont(b, i + 1, 128, 191) /\ Cont(b, i + 2, 128, 191) THEN 3 ELSE 0)
    ELSE IF c = 240
         THEN (IF Cont(b, i + 1, 144, 191) /\ Cont(b, i + 2, 128, 191)
                  /\ Cont(b, i + 3, 128, 191) THEN 4 ELSE 0)
    ELSE IF c \in 241..243
         THEN (IF Cont(b, i + 1, 128, 191) /\ Cont(b, i + 2, 128, 191)
                  /\ Cont(b, i + 3, 128, 191) THEN 4 ELSE 0)
    ELSE IF c = 244
         THEN (IF Cont(b, i + 1, 128, 143) /\ Cont(b, i + 2, 128, 191)
                  /\ Cont(b, i + 3, 128, 191) THEN 4 ELSE 0)
    ELSE 0

RECURSIVE from_utf8_from(_, _)
from_utf8_from(b, i) ==
    IF i > Len(b) THEN TRUE
    ELSE LET n == Utf8SeqLen(b, i) IN n # 0 /\ from_utf8_from(b, i + n)

\* Ok(&str) or Err(Utf8Error); the str is kept as its bytes
from_utf8(b) == IF from_utf8_from(b, 1) THEN Ok(b) ELSE Panic

\* Fat32Dirent::dirent_convert: the two unwraps of from_utf8 panic on a name that
\* is not UTF-8
dirent_convert(e) ==
    LET name == from_utf8(e.filename)
        raw_name == from_utf8(e.filename)
    IN  IF name.panic \/ raw_name.panic THEN Panic
        ELSE Ok([name |-> name.val,
                 raw_name |-> raw_name.val,
                 cluster_id |-> dirent_cluster_id(e),
                 is_dir_p |-> get_dirent_attr(e, "Fat32Dir"),
                 nbytes |-> arr_to_u32(e.file_nbytes)])

\* Fat32Inner::get_cluster_chain_length run to its end: "ok" with the length,
\* "panic", or "more" when the loop is still running after `fuel` iterations
RECURSIVE chain_length_run(_, _, _, _, _)
chain_length_run(f, cluster, chain_length, checks, fuel) ==
    LET t == get_fat_entry_type(cluster) IN
    IF t = "panic" THEN [status |-> "panic"]
    ELSE IF t \in StopTypes THEN [status |-> "ok", val |-> chain_length]
    ELSE IF fuel = 0 THEN [status |-> "more"]
    ELSE LET nxt == get_next_cluster_val(f, cluster, checks) IN
         IF nxt.panic THEN [status |-> "panic"]
         ELSE chain_length_run(f, nxt.val, chain_length + 1, checks, fuel - 1)

\* Fat32Inner::get_cluster_chain_data run to its end, with the reads it issued;
\* outcomes[k] is what the engine does with the k-th read
RECURSIVE chain_data_run(_, _, _, _, _, _, _, _, _)
chain_data_run(f, d, init, cluster, data, reads, checks, outcomes, fuel) ==
    LET t == get_fat_entry_type(cluster) IN
    IF t = "panic" THEN [status |-> "panic", reads |-> reads]
    ELSE IF t \in StopTypes THEN [status |-> "ok", val |-> data, reads |-> reads]
    ELSE IF fuel = 0 THEN [status |-> "more", reads |-> reads]
    ELSE LET lba == cluster_to_lba(f, cluster, checks) IN
         IF lba.panic THEN [status |-> "panic", reads |-> reads]
         ELSE LET read_size == f.sectors_per_cluster[2]
                  o == outcomes[Len(reads) + 1]
                  new_data == pi_sec_read(d, init, lba.val, read_size, o)
                  reads2 == Append(reads, ReadLog(lba.val, read_size, o))
                  nxt == get_next_cluster_val(f, cluster, checks)
              IN  IF nxt.panic THEN [status |-> "panic", reads |-> reads2]
                  ELSE chain_data_run(f, d, init, nxt.val, data \o new_data.data, reads2,
                                      checks, outcomes, fuel - 1)

\* the loop of get_dirents: for i in (0..len - 32).step_by(32), the record at
\* data[i .. i + 32]; len - 32 below zero overflows (panic where checked, an
\* out-of-range slice where not)
get_dirents_slices(data, checks) ==
    IF Len(data) < 32 THEN Panic
    ELSE LET n == (Len(data) - 32 + 31) \div 32 IN
         Ok([j \in 1..n |-> Fat32Dirent_from_bytes(Slice(data, 32 * (j - 1), 32 * j))])

\* the end of get_dirents, given the outcome of the data walk
get_dirents_of(chain, checks) ==
    IF chain.status # "ok"
    THEN [status |-> chain.status, stage |-> "data", reads |-> chain.reads, data |-> <<>>]
    ELSE IF get_dirents_slices(chain.val, checks).panic
         THEN [status |-> "panic", stage |-> "slice", reads |-> chain.reads,
               data |-> chain.val]
         ELSE [status |-> "ok", stage |-> "slice", reads |-> chain.reads,
               data |-> chain.val, val |-> get_dirents_slices(chain.val, checks).val]

\* Fat32Inner::get_dirents(start_cluster): the length walk, the data walk, the
\* slicing
get_dirents(f, d, init, start_cluster, checks, outcomes) ==
    IF chain_length_run(f, start_cluster, 0, checks, MaxWalk).status # "ok"
    THEN [status |-> chain_length_run(f, start_cluster, 0, checks, MaxWalk).status,
          stage |-> "length", reads |-> <<>>, data |-> <<>>]
    ELSE get_dirents_of(chain_data_run(f, d, init, start_cluster, <<>>, <<>>, checks,
                                       outcomes, MaxWalk), checks)

\* the test of read_dir's loop: long-name, free and volume-label records are
\* skipped
read_dir_skips(this_entry) ==
    dirent_is_lfn(this_entry) \/ dirent_is_free(this_entry)
        \/ dirent_is_vol_label(this_entry)

read_dir_keeps(this_entry) == ~read_dir_skips(this_entry)

\* the loop of read_dir: the records that are not skipped are converted and
\* pushed in order; the first conversion that fails panics
read_dir_loop(fat32_dirent_vec) ==
    LET kept == SelectSeq(fat32_dirent_vec, read_dir_keeps) IN
    IF \E i \in 1..Len(kept) : dirent_convert(kept[i]).panic THEN Panic
    ELSE Ok([i \in 1..Len(kept) |-> dirent_convert(kept[i]).val])

\* Fat32Inner::fat32_get_root; the name is kept as its bytes ("root")
fat32_get_root(f) ==
    [name |-> <<114, 111, 111, 116>>, raw_name |-> <<114, 111, 111, 116>>,
     cluster_id |-> f.root_dir_first_cluster, is_dir_p |-> TRUE, nbytes |-> U32Zero]

\* the end of read_dir, given the records get_dirents returned; `stage` tells how
\* far the call came: the length walk, the data walk, the slicing, the
\* conversion, or all of it ("done")
read_dir_of(got) ==
    IF got.status # "ok"
    THEN [status |-> got.status, stage |-> got.stage, reads |-> got.reads,
          data |-> got.data, raw |-> <<>>]
    ELSE IF read_dir_loop(got.val).panic
         THEN [status |-> "panic", stage |-> "convert", reads |-> got.reads,
               data |-> got.data, raw |-> got.val]
         ELSE [status |-> "ok", stage |-> "done", reads |-> got.reads, data |-> got.data,
               raw |-> got.val,
               val |-> [dirents |-> read_dir_loop(got.val).val,
                        n_dirents |-> <<0, Len(read_dir_loop(got.val).val)>>]]

\* Fat32Inner::read_dir(dir_ent)
read_dir(f, d, init, dir_ent, checks, outcomes) ==
    read_dir_of(get_dirents(f, d, init, dir_ent.cluster_id, checks, outcomes))

\* the directory entries handed to read_dir: the root and entries naming a few
\* other clusters
DirentOf(cluster_id) ==
    [name |-> NameSub, raw_name |-> NameSub, cluster_id |-> cluster_id,
     is_dir_p |-> TRUE, nbytes |-> U32Zero]

DirentArgs(f) ==
    IF f = NoFat32 THEN {}
    ELSE {fat32_get_root(f), DirentOf(<<0, 0>>), DirentOf(<<0, 3>>)}

\* what fat32_read_dir leaves behind, given the outcome of read_dir
fat32_read_dir_update(dir_ent, dir) ==
    /\ dir.status # "more"
    /\ disk' = card_after_reads(disk, dir.reads)
    /\ fat32_call' = [op |-> "read_dir", arg |-> dir_ent, reads |-> dir.reads,
                      stage |-> dir.stage, data |-> dir.data, raw |-> dir.raw]
    /\ IF dir.reads = <<>> THEN UNCHANGED <<sd_call, sd_result>>
       ELSE /\ sd_call' = [op |-> "read", lba |-> LastRead(dir.reads).lba,
                           nsec |-> LastRead(dir.reads).nsec,
                           write |-> emmc_read_sectors_write(LastRead(dir.reads).lba,
                                                             LastRead(dir.reads).nsec),
                           engine |-> LastRead(dir.reads).engine,
                           was_initialized |-> initialized]
            /\ sd_result' = pi_sec_read(disk, initialized, LastRead(dir.reads).lba,
                                        LastRead(dir.reads).nsec,
                                        LastRead(dir.reads).engine)
    /\ IF dir.status = "ok"
       THEN fat32_result' = Returned(dir.val) /\ kernel' = kernel
       ELSE fat32_result' = Panicked /\ kernel' = "panic"

\* Fat32::fat32_read_dir(dirent)
fat32_read_dir(dir_ent, outcomes) ==
    /\ kernel = "running"
    /\ fat32 # NoFat32
    /\ fat32_read_dir_update(dir_ent, read_dir(fat32, disk, initialized, dir_ent,
                                               overflow_checks, outcomes))
    /\ UNCHANGED <<fat32, card_ready, initialized, mbr, mbr_call, mbr_result,
                   overflow_checks, walk, chain_result, clsVars>>

\* what the engine does with the reads of one directory walk: all succeed, or
\* the k-th fails
WalkOutcomes ==
    {[k \in 1..MaxWalk |-> "ok"]}
        \cup {[k \in 1..MaxWalk |-> IF k = j THEN "error" ELSE "ok"] : j \in 1..2}

\* what the engine does with pi_sd_init and the two reads of Fat32::new
NewOutcomes ==
    {<<"ok", "ok", "ok">>, <<"ok", "error", "ok">>, <<"ok", "ok", "error">>,
     <<"error", "error", "error">>}

VolNext ==
    \/ \E o \in NewOutcomes : Fat32_new(o[1], o[2], o[3])
    \/ fat32_vol_id_check
    \/ \E o \in TransferOutcomes(card_ready) : fat32_read_fat(o)
    \/ \E c \in ClusterArgs : call_cluster_to_lba(c)

InitVolume == ClsInit /\ VolInit(VolDisks)

SpecVolume == InitVolume /\ [][VolNext]_vars

DirNext ==
    \/ \E o \in NewOutcomes : Fat32_new(o[1], o[2], o[3])
    \/ \E o \in TransferOutcomes(card_ready) : fat32_read_fat(o)
    \/ \E e \in DirentArgs(fat32), os \in WalkOutcomes : fat32_read_dir(e, os)

InitDir == ClsInit /\ VolInit(DirDisks)

SpecDir == InitDir /\ [][DirNext]_vars

----------------------------------------------------------------------------
(* Properties of construction, cluster addressing, validation and FAT load *)

\* sums and products that are not cut to 32 bits: <<carry, high limb, low limb>>
Wide(x) == <<0, x[1], x[2]>>
WideSum(a, b) ==
    <<(a[1] + b[1] + ((a[2] + b[2] + ((a[3] + b[3]) \div Limb)) \div Limb)),
      (a[2] + b[2] + ((a[3] + b[3]) \div Limb)) % Limb,
      (a[3] + b[3]) % Limb>>
WideTimes(k, x) ==
    <<(k * x[1] + ((k * x[2]) \div Limb)) \div Limb,
      (k * x[1] + ((k * x[2]) \div Limb)) % Limb,
      (k * x[2]) % Limb>>

\* Fat32Inner::new was entered and the engine served both of its reads
NewRanOnWorkingCard ==
    /\ fat32_call.op = "new"
    /\ ~PartitionEntry_fmt_panics(fat32_call.arg, overflow_checks)
    /\ \A i \in 1..Len(fat32_call.reads) : fat32_call.reads[i].engine = "ok"

\* C12: construction reads one sector at lba_start and one at lba_start +
\* info_sec_num, and leaves fat_begin_lba = lba_start + reserved_area_nsec,
\* clusters_begin_lba = fat_begin_lba + nfats * sectors_per_fat,
\* root_dir_first_cluster = the first-cluster field and n_fat_entries =
\* sectors_per_fat * 512 / 4, whatever the field values (nothing wraps, nothing
\* fails on overflow)
C12_ConstructionDerivesGeometry ==
    NewRanOnWorkingCard =>
        /\ fat32_result = Returned(TRUE)
        /\ kernel = "running"
        /\ Len(fat32_call.reads) = 2
        /\ fat32_call.reads[1] = ReadLog(fat32_call.arg.lba_start, 1, "ok")
        /\ fat32_call.reads[2].nsec = 1
        /\ Wide(fat32_call.reads[2].lba) =
               WideSum(Wide(fat32_call.arg.lba_start), <<0, 0, disk.vol.info_sec_num>>)
        /\ Wide(fat32.fat_begin_lba) =
               WideSum(Wide(fat32_call.arg.lba_start), <<0, 0, disk.vol.reserved_area_nsec>>)
        /\ Wide(fat32.clusters_begin_lba) =
               WideSum(WideSum(Wide(fat32_call.arg.lba_start),
                               <<0, 0, disk.vol.reserved_area_nsec>>),
                       WideTimes(disk.vol.nfats, disk.vol.nsec_per_fat))
        /\ fat32.root_dir_first_cluster = disk.vol.first_cluster
        /\ Wide(fat32.n_entries) = WideTimes(128, disk.vol.nsec_per_fat)

\* clusters_begin_lba + (cluster - 2) * sectors_per_cluster, not cut to 32 bits
WideLba(f, cluster) ==
    WideSum(Wide(f.clusters_begin_lba),
            WideTimes(f.sectors_per_cluster[2], U32SubNat(cluster, 2)))

C13_WitnessRejected ==
    /\ fat32_call.op = "cluster_to_lba"
    /\ fat32_call.arg = <<0, 1>>
    /\ fat32_result = Panicked

\* the eleven conditions on the bytes of a decoded boot sector (fields are
\* little-endian byte arrays)
WellFormedBootSector(b) ==
    /\ b.bytes_per_sec = <<0, 2>>
    /\ b.nfats = 2
    /\ b.sig = <<85, 170>>
    /\ b.sec_per_cluster % 2 = 0
    /\ b.max_files = <<0, 0>>
    /\ b.fs_nsec = <<0, 0>>
    /\ b.zero = <<0, 0>>
    /\ b.nsec_in_fs # <<0, 0, 0, 0>>
    /\ b.info_sec_num = <<1, 0>>
    /\ b.backup_boot_loc = <<6, 0>>
    /\ b.extended_sig = 41

\* C14: the volume check succeeds if and only if the decoded boot sector has
\* bytes-per-sector 512, nfats 2, signature 0xAA55, an even sectors-per-cluster,
\* max-files 0, fs_nsec 0, 'zero' 0, total-sectors not 0, info-sector 1,
\* backup-boot-location 6 and extended-signature 0x29; it fails (panics) when any
\* one of them is violated, and it changes no driver state
C14_CheckSucceedsIffWellFormed ==
    [][fat32_call'.op = "vol_id_check" =>
           /\ fat32' = fat32
           /\ UNCHANGED <<mbr, initialized, disk>>
           /\ IF WellFormedBootSector(fat32.boot_sec)
              THEN fat32_result' = Returned(TRUE) /\ kernel' = "running"
              ELSE fat32_result' = Panicked /\ kernel' = "panic"]_vars

\* the check succeeded on the well-formed volume
C14_Witness ==
    /\ fat32_call.op = "vol_id_check"
    /\ fat32_result = Returned(TRUE)
    /\ disk.vol = GoodVol
    /\ fat32.boot_sec.backup_boot_loc = <<6, 0>>

\* the check failed on a volume whose only flaw is the backup boot location
C14_WitnessFailed ==
    /\ fat32_call.op = "vol_id_check"
    /\ fat32_result = Panicked
    /\ disk.vol = [GoodVol EXCEPT !.backup_boot_loc = 262]
    /\ fat32.boot_sec.backup_boot_loc = <<6, 1>>

\* C18: fat32_read_fat reads sectors_per_fat sectors starting at fat_begin_lba,
\* whatever nfats is; when it succeeds the FAT buffer holds those sectors_per_fat
\* * 512 bytes; a failed read is fatal (the kernel stops, no FAT is left for a
\* later traversal)
C18_LoadFatReadsWholeFat ==
    fat32_call.op = "read_fat" =>
        /\ fat32_call.reads =
               <<ReadLog(fat32.fat_begin_lba,
                         U32ToNat(arr_to_u32(fat32.boot_sec.nsec_per_fat)),
                         sd_call.engine)>>
        /\ IF sd_call.engine = "ok"
           THEN /\ fat32_result = Returned(TRUE)
                /\ Wide(<<0, Len(fat32.fat)>>) =
                       WideTimes(512, arr_to_u32(fat32.boot_sec.nsec_per_fat))
                /\ \A i \in 1..SectorSize :
                       fat32.fat[i] = Sector(disk, fat32.fat_begin_lba)[i]
           ELSE fat32_result = Panicked /\ kernel = "panic"

----------------------------------------------------------------------------
(* Properties of directory reading *)

\* the data walk of the last read_dir ran to its end, so that get_dirents had
\* chain data to slice
ChainDataWalked ==
    fat32_call.op = "read_dir" /\ fat32_call.stage \in {"slice", "convert", "done"}

\* the consecutive 32-byte records of a block of bytes
AllRecords(data) ==
    [j \in 1..(Len(data) \div 32) |->
        Fat32Dirent_from_bytes(Slice(data, 32 * (j - 1), 32 * j))]

\* C15: get_dirents slices chain data of L bytes (L a multiple of 32, L = 0
\* included) into exactly L / 32 records, the i-th being bytes 32 * i .. 32 * i +
\* 31; none is skipped, the last included, and an empty chain is no failure
C15_SlicesEveryRecord ==
    ChainDataWalked =>
        /\ ~(fat32_call.stage = "slice" /\ fat32_result = Panicked)
        /\ Len(fat32_call.raw) = Len(fat32_call.data) \div 32
        /\ fat32_call.raw = AllRecords(fat32_call.data)

\* a record that the documented rule retains: not free, not a long-name record
\* (attribute 0x0F), not a volume label (attribute bit 0x08)
DocRetains(e) ==
    /\ e.filename[1] # 0
    /\ e.filename[1] # 229
    /\ e.attr # 15
    /\ (e.attr \div 8) % 2 = 0

\* C16: the Directory read_dir returns holds exactly one entry for each raw
\* record of the directory that is neither free, nor a long-name record, nor a
\* volume label, and no other; its count is the number of entries it holds
C16_RetainsDocumentedRecords ==
    (fat32_call.op = "read_dir" /\ fat32_call.stage = "done") =>
        /\ fat32_result.kind = "value"
        /\ fat32_result.val.n_dirents = <<0, Len(fat32_result.val.dirents)>>
        /\ Len(fat32_result.val.dirents) =
               Len(SelectSeq(AllRecords(fat32_call.data), DocRetains))
        /\ \A i \in 1..Len(fat32_result.val.dirents) :
               fat32_result.val.dirents[i].raw_name =
                   SelectSeq(AllRecords(fat32_call.data), DocRetains)[i].filename

\* the fields of a raw record as the documented conversion reads them
DocConverted(e, entry) ==
    /\ entry.cluster_id = <<e.hi_start[1] + 256 * e.hi_start[2],
                            e.lo_start[1] + 256 * e.lo_start[2]>>
    /\ entry.nbytes = <<e.file_nbytes[3] + 256 * e.file_nbytes[4],
                        e.file_nbytes[1] + 256 * e.file_nbytes[2]>>
    /\ entry.is_dir_p = ((e.attr \div 16) % 2 = 1)
    /\ entry.name = e.filename
    /\ Len(entry.name) = 11

\* C17: every entry read_dir returns is converted from its raw record: cluster
\* id = (high 16 bits << 16) | low 16 bits, size = the little-endian file-size
\* field, is-directory = attribute bit 0x10, name = the 11 filename bytes; the
\* entries are in the order of the records they come from
C17_EntriesConvertedInOrder ==
    (fat32_call.op = "read_dir" /\ fat32_call.stage = "done") =>
        /\ fat32_result.kind = "value"
        /\ Len(fat32_result.val.dirents) =
               Len(SelectSeq(fat32_call.raw, read_dir_keeps))
        /\ \A i \in 1..Len(fat32_result.val.dirents) :
               DocConverted(SelectSeq(fat32_call.raw, read_dir_keeps)[i],
                            fat32_result.val.dirents[i])

\* a directory, a file and a record with a 32-bit cluster number and size were
\* returned in this order
C17_Witness ==
    /\ fat32_call.op = "read_dir"
    /\ fat32_call.stage = "done"
    /\ disk.dir = <<RecDir, RecFile, RecPlain>>
    /\ fat32_result.kind = "value"
    /\ Len(fat32_result.val.dirents) = 3
    /\ fat32_result.val.dirents[1].is_dir_p
    /\ fat32_result.val.dirents[1].cluster_id = <<1, 2>>
    /\ fat32_result.val.dirents[2].name = NameFile
    /\ fat32_result.val.dirents[2].nbytes = <<0, 1234>>
    /\ ~fat32_result.val.dirents[3].is_dir_p
    /\ fat32_result.val.dirents[3].cluster_id = <<4660, 22136>>
    /\ fat32_result.val.dirents[3].nbytes = <<4660, 22136>>

----------------------------------------------------------------------------
(* Classification of raw FAT entries: inputs and specification *)

LowSpan == 5         \* raw values 0 .. LowSpan
HighSpan == 21       \* raw values 0xFFF_FFFF - HighSpan .. 0xFFF_FFFF
TopNibbles == {0, 1, 8, 15}

Low28Samples ==
    {U32Of(0, l) : l \in 0..LowSpan}
        \cup {U32Of(4095, 65535 - k) : k \in 0..HighSpan}
        \cup {U32Of(1, 0), U32Of(0, 65535), U32Of(2048, 0), U32Of(4094, 65535)}

RawValues == {U32Of(n * 4096 + v[1], v[2]) : n \in TopNibbles, v \in Low28Samples}

\* the classification runs on its own: the drivers are instantiated and idle
ClsFrame == UNCHANGED <<sdVars, mbrVars, chainVars>>

Classify(x) ==
    /\ raw' = x
    /\ cluster_type' = get_fat_entry_type(x)
    /\ UNCHANGED <<cmd_prev, cmd_call, cmd_result, lockVars, decVars>>
    /\ ClsFrame

ClsNext == \E x \in RawValues : Classify(x)

InitClassify == ClsInit /\ SdIdle /\ MbrIdle /\ ChainIdle

SpecClassify == InitClassify /\ [][ClsNext]_vars

\* C1: get_fat_entry_type decides on the low 28 bits of the raw value only, and
\* returns Free for 0x0000000, Reserved for 0x0000001, Bad for 0xFFFFFF7, Last for
\* 0xFFFFFF8..0xFFFFFFF and Used for 0x0000002..0xFFFFFEF.
C1_ClassifiesLow28 ==
    cluster_type # "none" =>
        LET v == Low28(raw) IN
        /\ (v = <<0, 0>> => cluster_type = "FreeCluster")
        /\ (v = <<0, 1>> => cluster_type = "ReservedCluster")
        /\ (v = <<4095, 65527>> => cluster_type = "BadCluster")
        /\ (U32In(v, <<4095, 65528>>, <<4095, 65535>>) => cluster_type = "LastCluster")
        /\ (U32In(v, <<0, 2>>, <<4095, 65519>>) => cluster_type = "UsedCluster")

\* C1 witness: 0xFFFF_FFEF, upper nibble set, was classified Used
C1_Witness == raw = <<65535, 65519>> /\ cluster_type = "UsedCluster"

\* C2 as claimed: no raw FAT entry reaches the `_ => panic!` arm
C2_NeverUnrecognized == cluster_type # "panic"

\* C2 as amended: the `_ => panic!` arm is reached exactly by the raw entries whose
\* low 28 bits are one of the reserved values 0xFFFFFF0..0xFFFFFF6; every other raw
\* entry gets one of the five kinds.
C2_PanicExactlyOnReservedValues ==
    cluster_type # "none" =>
        /\ cluster_type \in {"FreeCluster", "ReservedCluster", "BadCluster",
                             "LastCluster", "UsedCluster", "panic"}
        /\ (cluster_type = "panic"
               <=> U32In(Low28(raw), <<4095, 65520>>, <<4095, 65526>>))

\* C2 witness: 0x0FFF_FFF0 was classified and hit the panic arm
C2_Witness == raw = <<4095, 65520>> /\ cluster_type = "panic"

----------------------------------------------------------------------------
(* emmc.rs: the command descriptor table *)

\* register_bitfields! CMDTM: a field is a run of bits of the 32-bit register; limb
\* 1 holds bits 16..31 and limb 2 bits 0..15, shift counts inside the limb
TM_BLKCNT_EN == [limb |-> 2, shift |-> 1, numbits |-> 1]
TM_DAT_DIR == [limb |-> 2, shift |-> 4, numbits |-> 1]
TM_MULTI_BLOCK == [limb |-> 2, shift |-> 5, numbits |-> 1]
CMD_RSPNS_TYPE == [limb |-> 1, shift |-> 0, numbits |-> 2]
CMD_ISDATA == [limb |-> 1, shift |-> 5, numbits |-> 1]
CMD_INDEX == [limb |-> 1, shift |-> 8, numbits |-> 6]

\* a field value that sets no bit (variant of Field_val)
Field_val_zero(field, v) == <<0, 0>>

\* Field::val: the value cut to the field's width and moved to the field's place
Field_val(field, v) ==
    IF field.limb = 1
    THEN <<(v % 2^field.numbits) * 2^field.shift, 0>>
    ELSE <<0, (v % 2^field.numbits) * 2^field.shift>>

\* the values of CMD_RSPNS_TYPE
CMD_NO_RESP == Field_val(CMD_RSPNS_TYPE, 0)
CMD_136BIT_RESP == Field_val(CMD_RSPNS_TYPE, 1)
CMD_48BIT_RESP == Field_val(CMD_RSPNS_TYPE, 2)
CMD_BUSY48BIT_RESP == Field_val(CMD_RSPNS_TYPE, 3)

\* FieldValue + FieldValue: the bits of both
FieldValue_add(a, b) == <<Or16(a[1], b[1]), Or16(a[2], b[2])>>

\* LocalRegisterCopy::read: the bits of one field
LocalRegisterCopy_read(reg, field) ==
    (reg[field.limb] \div 2^field.shift) % 2^field.numbits

\* struct EMMCCommand
EMMCCommand(name, code, rca, wait) ==
    [cmd_name |-> name, cmd_code |-> code, use_rca |-> rca, delay |-> wait]

\* EMMCCommand::new: the blank descriptor
EMMCCommand_new == EMMCCommand(" ", <<0, 0>>, 0, 0)

\* enum SdCardCommands, in declaration order
SdCardCommands ==
    <<"GO_IDLE_STATE", "ALL_SEND_CID", "SEND_REL_ADDR", "SET_DSR", "SWITCH_FUNC",
      "CARD_SELECT", "SEND_IF_COND", "SEND_CSD", "SEND_CID", "VOLTAGE_SWITCH",
      "STOP_TRANS", "SEND_STATUS", "GO_INACTIVE", "SET_BLOCKLEN", "READ_SINGLE",
      "READ_MULTI", "SEND_TUNING", "SPEED_CLASS", "SET_BLOCKCNT", "WRITE_SINGLE",
      "WRITE_MULTI", "PROGRAM_CSD", "SET_WRITE_PR", "CLR_WRITE_PR", "SND_WRITE_PR",
      "ERASE_WR_ST", "ERASE_WR_END", "ERASE", "LOCK_UNLOCK", "APP_CMD",
      "APP_CMD_RCA", "GEN_CMD", "APP_CMD_START", "SET_BUS_WIDTH", "EMMC_STATUS",
      "SEND_NUM_WRBL", "SEND_NUM_ERS", "APP_SEND_OP_COND", "SET_CLR_DET", "SEND_SCR">>

\* the arms of get_cmd that write CMD_INDEX and CMD_RSPNS_TYPE only:
\* cmd.write(CMD_INDEX.val(index) + resp) into a register copy that starts at 0
PlainArm(name, index, resp, rca, wait) ==
    Ok(EMMCCommand(name, FieldValue_add(Field_val(CMD_INDEX, index), resp), rca, wait))

\* the arms of get_cmd that add data-transfer fields to index and response type
DataArm(name, index, resp, extra) ==
    Ok(EMMCCommand(name,
                   FieldValue_add(FieldValue_add(Field_val(CMD_INDEX, index), resp), extra),
                   0, 0))

\* a lookup that answers every identifier with the blank descriptor (variant of
\* get_cmd)
get_cmd_blank(c) == Ok(EMMCCommand_new)

\* SdCardCommands::get_cmd: one match arm per command, `_ => unimplemented!()` for
\* the rest
get_cmd(c) ==
    CASE c = "GO_IDLE_STATE" -> PlainArm("GO_IDLE_STATE", 0, CMD_NO_RESP, 0, 0)
      [] c = "ALL_SEND_CID" -> PlainArm("ALL_SEND_CID", 2, CMD_136BIT_RESP, 0, 0)
      [] c = "SEND_REL_ADDR" -> PlainArm("SEND_REL_ADDR", 3, CMD_48BIT_RESP, 0, 0)
      [] c = "SET_DSR" -> PlainArm("SET_DSR", 4, CMD_NO_RESP, 0, 0)
      [] c = "SWITCH_FUNC" -> PlainArm("SWITCH_FUNC", 6, CMD_48BIT_RESP, 0, 0)
      [] c = "CARD_SELECT" -> PlainArm("CARD_SELECT", 7, CMD_BUSY48BIT_RESP, 1, 0)
      [] c = "SEND_IF_COND" -> PlainArm("SEND_IF_COND", 8, CMD_48BIT_RESP, 1, 100)
      [] c = "SEND_CSD" -> PlainArm("SEND_CSD", 9, CMD_136BIT_RESP, 1, 0)
      [] c = "SEND_CID" -> PlainArm("SEND_CID", 10, CMD_136BIT_RESP, 1, 0)
      [] c = "VOLTAGE_SWITCH" -> PlainArm("VOLTAGE_SWITCH", 11, CMD_48BIT_RESP, 0, 0)
      [] c = "STOP_TRANS" -> PlainArm("STOP_TRANS", 12, CMD_BUSY48BIT_RESP, 0, 0)
      [] c = "SEND_STATUS" -> PlainArm("SEND_STATUS", 13, CMD_48BIT_RESP, 1, 0)
      [] c = "GO_INACTIVE" -> PlainArm("GO_INACTIVE", 15, CMD_NO_RESP, 1, 0)
      [] c = "SET_BLOCKLEN" -> PlainArm("SET_BLOCKLEN", 16, CMD_NO_RESP, 0, 0)
      [] c = "READ_SINGLE" ->
            DataArm("READ_SINGLE", 17, CMD_48BIT_RESP,
                    FieldValue_add(Field_val(CMD_ISDATA, 1), Field_val(TM_DAT_DIR, 1)))
      [] c = "READ_MULTI" ->
            DataArm("READ_MULTI", 18, CMD_48BIT_RESP,
                    FieldValue_add(
                        FieldValue_add(Field_val(CMD_ISDATA, 1), Field_val(TM_DAT_DIR, 1)),
                        FieldValue_add(Field_val(TM_BLKCNT_EN, 1),
                                       Field_val(TM_MULTI_BLOCK, 1))))
      [] c = "SEND_TUNING" -> PlainArm("SEND_TUNING", 19, CMD_48BIT_RESP, 0, 0)
      [] c = "SPEED_CLASS" -> PlainArm("SPEED_CLASS", 20, CMD_BUSY48BIT_RESP, 0, 0)
      [] c = "SET_BLOCKCNT" -> PlainArm("SET_BLOCKCNT", 23, CMD_48BIT_RESP, 0, 0)
      [] c = "WRITE_SINGLE" ->
            DataArm("WRITE_SINGLE", 24, CMD_48BIT_RESP, Field_val(CMD_ISDATA, 1))
      [] c = "WRITE_MULTI" ->
            DataArm("WRITE_MULTI", 25, CMD_48BIT_RESP,
                    FieldValue_add(Field_val(CMD_ISDATA, 1),
                                   FieldValue_add(Field_val(TM_BLKCNT_EN, 1),
                                                  Field_val(TM_MULTI_BLOCK, 1))))
      [] c = "PROGRAM_CSD" -> PlainArm("PROGRAM_CSD", 27, CMD_48BIT_RESP, 0, 0)
      [] c = "SET_WRITE_PR" -> PlainArm("SET_WRITE_PR", 28, CMD_BUSY48BIT_RESP, 0, 0)
      [] c = "CLR_WRITE_PR" -> PlainArm("CLR_WRITE_PR", 29, CMD_BUSY48BIT_RESP, 0, 0)
      [] c = "SND_WRITE_PR" -> PlainArm("SND_WRITE_PR", 30, CMD_48BIT_RESP, 0, 0)
      [] c = "ERASE_WR_ST" -> PlainArm("ERASE_WR_ST", 32, CMD_48BIT_RESP, 0, 0)
      [] c = "ERASE_WR_END" -> PlainArm("ERASE_WR_END", 33, CMD_48BIT_RESP, 0, 0)
      [] c = "ERASE" -> PlainArm("ERASE", 38, CMD_BUSY48BIT_RESP, 0, 0)
      [] c = "LOCK_UNLOCK" -> PlainArm("LOCK_UNLOCK", 42, CMD_48BIT_RESP, 0, 0)
      [] c = "APP_CMD" -> PlainArm("APP_CMD", 55, CMD_NO_RESP, 0, 100)
      [] c = "APP_CMD_RCA" -> PlainArm("APP_CMD_RCA", 55, CMD_48BIT_RESP, 1, 0)
      [] c = "GEN_CMD" -> PlainArm("GEN_CMD", 56, CMD_48BIT_RESP, 0, 0)
      [] c = "SET_BUS_WIDTH" -> PlainArm("SET_BUS_WIDTH", 6, CMD_48BIT_RESP, 0, 0)
      [] c = "EMMC_STATUS" -> PlainArm("EMMC_STATUS", 13, CMD_48BIT_RESP, 1, 0)
      [] c = "SEND_NUM_WRBL" -> PlainArm("SEND_NUM_WRBL", 22, CMD_48BIT_RESP, 0, 0)
      [] c = "SEND_NUM_ERS" -> PlainArm("SEND_NUM_ERS", 23, CMD_48BIT_RESP, 0, 0)
      [] c = "APP_SEND_OP_COND" ->
            PlainArm("APP_SEND_OP_COND", 41, CMD_48BIT_RESP, 0, 1000)
      [] c = "SET_CLR_DET" -> PlainArm("SET_CLR_DET", 42, CMD_48BIT_RESP, 0, 0)
      [] c = "SEND_SCR" ->
            DataArm("SEND_SCR", 51, CMD_48BIT_RESP,
                    FieldValue_add(Field_val(CMD_ISDATA, 1), Field_val(TM_DAT_DIR, 1)))
      [] OTHER -> Panic

\* what a call of get_cmd leaves behind: the descriptor, or a kernel panic
get_cmd_update(r) ==
    /\ cmd_result' = (IF r.panic THEN Panicked ELSE Returned(r.val))
    /\ kernel' = (IF r.panic THEN "panic" ELSE kernel)

\* a caller looks up the descriptor of command c
call_get_cmd(c) ==
    /\ kernel = "running"
    /\ cmd_prev' = [cmd |-> cmd_call, result |-> cmd_result]
    /\ cmd_call' = c
    /\ get_cmd_update(get_cmd(c))
    /\ UNCHANGED <<raw, cluster_type, lockVars, decVars, sdVars, mbr, mbr_call,
                   mbr_result, chainVars>>

CmdNext == \E i \in 1..Len(SdCardCommands) : call_get_cmd(SdCardCommands[i])

InitCmd == ClsInit /\ SdIdle /\ MbrIdle /\ ChainIdle

SpecCmd == InitCmd /\ [][CmdNext]_vars

----------------------------------------------------------------------------
(* Properties of the command descriptor table *)

TransferCommands ==
    {"READ_SINGLE", "READ_MULTI", "WRITE_SINGLE", "WRITE_MULTI", "SEND_SCR"}
CardToHostCommands == {"READ_SINGLE", "READ_MULTI", "SEND_SCR"}
MultiBlockCommands == {"READ_MULTI", "WRITE_MULTI"}

\* the last lookup returned a descriptor whose field has this value
Flag(field, v) == LocalRegisterCopy_read(cmd_result.val.cmd_code, field) = v

\* C19: in every descriptor get_cmd returns, the data-transfer flag is set exactly
\* for READ_SINGLE, READ_MULTI, WRITE_SINGLE, WRITE_MULTI and SEND_SCR; the
\* direction flag is card-to-host exactly for READ_SINGLE, READ_MULTI and SEND_SCR
\* (so host-to-card for the writes); multi-block and block-count-enable are set
\* together and exactly for READ_MULTI and WRITE_MULTI; hence multi-block implies
\* block-count-enable and data-transfer, and card-to-host implies data-transfer.
C19_TransferFlagsOfTheTable ==
    cmd_result.kind = "value" =>
        /\ Flag(CMD_ISDATA, 1) <=> cmd_call \in TransferCommands
        /\ Flag(TM_DAT_DIR, 1) <=> cmd_call \in CardToHostCommands
        /\ cmd_call \in {"WRITE_SINGLE", "WRITE_MULTI"} => Flag(TM_DAT_DIR, 0)
        /\ Flag(TM_MULTI_BLOCK, 1) <=> cmd_call \in MultiBlockCommands
        /\ Flag(TM_BLKCNT_EN, 1) <=> cmd_call \in MultiBlockCommands
        /\ Flag(TM_MULTI_BLOCK, 1) => Flag(TM_BLKCNT_EN, 1) /\ Flag(CMD_ISDATA, 1)
        /\ Flag(TM_DAT_DIR, 1) => Flag(CMD_ISDATA, 1)

\* C19 witness: READ_MULTI was looked up and its descriptor has all four flags
C19_Witness ==
    /\ cmd_call = "READ_MULTI"
    /\ cmd_result.kind = "value"
    /\ Flag(CMD_ISDATA, 1)
    /\ Flag(TM_DAT_DIR, 1)
    /\ Flag(TM_MULTI_BLOCK, 1)
    /\ Flag(TM_BLKCNT_EN, 1)

SdCardCommands_ge(a, b) ==
    (CHOOSE i \in 1..Len(SdCardCommands) : SdCardCommands[i] = a)
        >= (CHOOSE i \in 1..Len(SdCardCommands) : SdCardCommands[i] = b)

\* #[derive(PartialOrd)] on enum SdCardCommands: a > b compares the places of the
\* two identifiers in the declaration
SdCardCommands_gt(a, b) ==
    (CHOOSE i \in 1..Len(SdCardCommands) : SdCardCommands[i] = a)
        > (CHOOSE i \in 1..Len(SdCardCommands) : SdCardCommands[i] = b)

\* the commands of the SD protocol that are sent after APP_CMD
ApplicationCommands ==
    {"SET_BUS_WIDTH", "EMMC_STATUS", "SEND_NUM_WRBL", "SEND_NUM_ERS",
     "APP_SEND_OP_COND", "SET_CLR_DET", "SEND_SCR"}

\* C21: an identifier is ordered after the APP_CMD_START marker if and only if it
\* is one of SET_BUS_WIDTH, EMMC_STATUS, SEND_NUM_WRBL, SEND_NUM_ERS,
\* APP_SEND_OP_COND, SET_CLR_DET and SEND_SCR, the commands that need the APP_CMD
\* prefix; the marker itself and every command before it are not.
C21_AfterMarkerIffApplicationCommand ==
    cmd_call # "none" =>
        (SdCardCommands_gt(cmd_call, "APP_CMD_START")
            <=> cmd_call \in ApplicationCommands)

\* C21 witness: SET_BUS_WIDTH, the first identifier after the marker, was looked
\* up and compares greater than the marker, right after a lookup of GEN_CMD, the
\* last identifier before the marker, which does not
C21_Witness ==
    /\ cmd_prev.cmd = "GEN_CMD"
    /\ ~SdCardCommands_gt(cmd_prev.cmd, "APP_CMD_START")
    /\ cmd_call = "SET_BUS_WIDTH"
    /\ cmd_result.kind = "value"
    /\ SdCardCommands_gt(cmd_call, "APP_CMD_START")

----------------------------------------------------------------------------
(* The mount sequence: MBR::new, then Fat32::new, then the volume's methods *)

\* cards that hold the well-formed volume behind a partition table that is
\* well-formed, names a Linux partition, has a wrong signature, or a second
\* partition
MountDisks ==
    {VolCard(Fat32LbaSlot, GoodVol, <<RecDeleted, RecLfn, RecFile>>),
     VolCard(LinuxSlot, GoodVol, <<RecDeleted, RecLfn, RecFile>>),
     [VolCard(Fat32LbaSlot, GoodVol, <<RecDeleted, RecLfn, RecFile>>)
          EXCEPT !.sig = <<85, 0>>],
     [VolCard(Fat32LbaSlot, GoodVol, <<RecDeleted, RecLfn, RecFile>>)
          EXCEPT !.parts = <<Fat32LbaSlot, TopByteSlot, ZeroSlot, ZeroSlot>>]}

\* sectors read through the block device by other callers
MountLbas == {U32Zero, <<0, 1>>}

\* driver::init up to driver_sd: the SD handle exists, no MBR and no volume yet
MountInit ==
    /\ disk \in MountDisks
    /\ card_ready = FALSE
    /\ initialized = FALSE
    /\ sd_call = NoCall
    /\ sd_result = [ok |-> TRUE, data |-> <<>>]
    /\ MbrIdle
    /\ overflow_checks \in BOOLEAN
    /\ fat32 = NoFat32
    /\ walk = NoWalk
    /\ chain_result = NoResult
    /\ fat32_call = NoCall
    /\ fat32_result = NoResult

MountNext ==
    \/ \E oi \in EngineOutcomes, o \in EngineOutcomes : MBR_new(oi, o)
    \/ mbr_check
    \/ \E o \in NewOutcomes : Fat32_new(o[1], o[2], o[3])
    \/ fat32_vol_id_check
    \/ \E o \in TransferOutcomes(card_ready) : fat32_read_fat(o)
    \/ \E e \in DirentArgs(fat32), os \in WalkOutcomes : fat32_read_dir(e, os)
    \/ \E l \in MountLbas, o \in TransferOutcomes(card_ready) : SdRead(l, 1, o)

InitMount == ClsInit /\ MountInit

SpecMount == InitMount /\ [][MountNext]_vars

\* C22: no transfer that the block device, the partition table reader or the
\* FAT32 driver asks of the engine is a write, and no step of mounting,
\* validating, loading the FAT, reading a directory or reading a sector changes
\* what the card holds.
C22_NeverWritesToTheCard ==
    /\ [](sd_call.op = "read" => sd_call.write = FALSE)
    /\ [][disk' = disk]_vars

\* C22 witness: the root directory was read from the mounted volume with its FAT
\* loaded, through a read transfer, and the card still holds what it held
C22_Witness ==
    /\ fat32_call.op = "read_dir"
    /\ Len(fat32_call.reads) >= 1
    /\ fat32_result.kind = "value"
    /\ sd_call.op = "read"
    /\ sd_call.write = FALSE
    /\ disk \in MountDisks

\* C27: whenever Fat32 construction has read the boot sector at the lba_start of
\* the partition entry it was handed, the MBR that entry came from satisfies the
\* MBR invariant: signature 0x55, 0xAA, slot 1 not empty and of type 0x0B or
\* 0x0C, slots 2 to 4 all zero.
C27_MountsOnlyValidatedMbr ==
    (fat32_call.op = "new" /\ fat32_call.reads # <<>>) =>
        /\ mbr.sigval = <<85, 170>>
        /\ mbr.part_tab1 # ZeroSlot
        /\ get_partition(mbr, 1).part_type \in {11, 12}
        /\ mbr.part_tab2 = ZeroSlot
        /\ mbr.part_tab3 = ZeroSlot
        /\ mbr.part_tab4 = ZeroSlot

----------------------------------------------------------------------------
(* The exclusive sections of the three drivers *)

\* the public methods that run inside `self.inner.lock(..)`
LockedMethods ==
    {"pi_sd_init", "pi_sec_read", "mbr_get_partition", "mbr_get_sigval", "mbr_check",
     "fat32_vol_id_check", "fat32_read_fat", "fat32_get_root", "fat32_read_dir"}

\* the driver whose `inner` a method locks
DriverOf(method) ==
    CASE method \in {"pi_sd_init", "pi_sec_read"} -> "SD"
      [] method \in {"mbr_get_partition", "mbr_get_sigval", "mbr_check"} -> "MBR"
      [] OTHER -> "Fat32"

\* the locked methods a method calls from inside its section: fat32_read_fat and
\* read_dir (through get_cluster_chain_data) call pi_sec_read on the SD handle
CallsInside(method) ==
    IF method \in {"fat32_read_fat", "fat32_read_dir"} THEN {"pi_sec_read"} ELSE {}

\* a section that leaves the IRQ mask as it finds it (variant of
\* local_irq_mask_save)
local_irq_mask_kept(masked) == masked

\* IRQSafeNullLock::lock: the mask bit while the closure runs
local_irq_mask_save(masked) == TRUE

\* the sections run on their own: the drivers are idle
LockFrame ==
    UNCHANGED <<raw, cluster_type, cmd_prev, cmd_call, cmd_result, decVars, sdVars,
                mbrVars, chainVars>>

\* a context calls a locked method: from outside every section, or from inside a
\* section whose method makes that call; the lock saves the mask and masks IRQs
LockEnter(m) ==
    /\ kernel = "running"
    /\ \/ sections[context] = <<>>
       \/ /\ sections[context] # <<>>
          /\ m \in CallsInside(sections[context][Len(sections[context])].method)
    /\ sections' = [sections EXCEPT
                        ![context] = Append(@, [method |-> m, saved |-> irq_masked])]
    /\ irq_masked' = local_irq_mask_save(irq_masked)
    /\ UNCHANGED <<context, returned>>
    /\ LockFrame

\* the closure of the innermost section returns: the saved mask is restored
LockExit ==
    /\ kernel = "running"
    /\ sections[context] # <<>>
    /\ irq_masked' = sections[context][Len(sections[context])].saved
    /\ returned' = [context |-> context,
                    method |-> sections[context][Len(sections[context])].method]
    /\ sections' = [sections EXCEPT ![context] = SubSeq(@, 1, Len(@) - 1)]
    /\ UNCHANGED context
    /\ LockFrame

\* kernel_init: exception::asynchronous::local_irq_unmask()
local_irq_unmask ==
    /\ kernel = "running"
    /\ context = "main"
    /\ sections.main = <<>>
    /\ irq_masked
    /\ irq_masked' = FALSE
    /\ UNCHANGED <<context, sections, returned>>
    /\ LockFrame

\* the core takes an IRQ: only with the mask bit clear; the handler starts with
\* IRQs masked
IrqEntry ==
    /\ kernel = "running"
    /\ context = "main"
    /\ ~irq_masked
    /\ context' = "irq"
    /\ irq_masked' = TRUE
    /\ UNCHANGED <<sections, returned>>
    /\ LockFrame

\* the handler returns to the flow it interrupted, whose mask bit was clear
IrqExit ==
    /\ kernel = "running"
    /\ context = "irq"
    /\ sections.irq = <<>>
    /\ context' = "main"
    /\ irq_masked' = FALSE
    /\ UNCHANGED <<sections, returned>>
    /\ LockFrame

LockNext ==
    \/ \E m \in LockedMethods : LockEnter(m)
    \/ LockExit
    \/ local_irq_unmask
    \/ IrqEntry
    \/ IrqExit

InitLock == ClsInit /\ SdIdle /\ MbrIdle /\ ChainIdle

SpecLock == InitLock /\ [][LockNext]_vars

\* the drivers whose section a context is inside
DriversHeld(ctx) ==
    {DriverOf(sections[ctx][i].method) : i \in 1..Len(sections[ctx])}

\* C23: no driver has the main flow and an interrupt handler inside its section
\* at the same time; no context is twice inside the section of one driver; a
\* section entered from inside another one is the SD section entered from the
\* Fat32 section, so SD and MBR methods nest nothing; and IRQs are masked while
\* the running context is inside a section.
C23_ExclusiveSections ==
    /\ DriversHeld("main") \cap DriversHeld("irq") = {}
    /\ \A ctx \in {"main", "irq"} :
           /\ \A i, j \in 1..Len(sections[ctx]) :
                  i < j => DriverOf(sections[ctx][i].method)
                               # DriverOf(sections[ctx][j].method)
           /\ \A i \in 2..Len(sections[ctx]) :
                  /\ DriverOf(sections[ctx][i - 1].method) = "Fat32"
                  /\ DriverOf(sections[ctx][i].method) = "SD"
    /\ sections[context] # <<>> => irq_masked
    /\ (context = "irq" => sections.main = <<>>)

\* C23 witness: with IRQs enabled by the kernel, an interrupt handler is inside
\* the Fat32 section of fat32_read_dir and, nested, the SD section of pi_sec_read,
\* while the main flow is in no section
C23_Witness ==
    /\ context = "irq"
    /\ Len(sections.irq) = 2
    /\ sections.irq[1].method = "fat32_read_dir"
    /\ sections.irq[2].method = "pi_sec_read"
    /\ sections.main = <<>>
    /\ irq_masked
    /\ returned.context = "main"

----------------------------------------------------------------------------
(* The field decoders on their own *)

\* byte values handed to the decoders
ByteSamples == {0, 1, 127, 128, 255}

\* one call of a field decoder; a u16 is carried as <<0, value>>
call_arr_to_u16(b) ==
    /\ decode_call' = [fn |-> "arr_to_u16", bytes |-> b]
    /\ decode_result' = <<0, arr_to_u16(b)>>
    /\ UNCHANGED <<raw, cluster_type, cmd_prev, cmd_call, cmd_result, lockVars, sdVars,
                   mbrVars, chainVars>>

call_arr_to_u32(b) ==
    /\ decode_call' = [fn |-> "arr_to_u32", bytes |-> b]
    /\ decode_result' = arr_to_u32(b)
    /\ UNCHANGED <<raw, cluster_type, cmd_prev, cmd_call, cmd_result, lockVars, sdVars,
                   mbrVars, chainVars>>

call_sl_to_u32(b) ==
    /\ decode_call' = [fn |-> "sl_to_u32", bytes |-> b]
    /\ decode_result' = sl_to_u32(b)
    /\ UNCHANGED <<raw, cluster_type, cmd_prev, cmd_call, cmd_result, lockVars, sdVars,
                   mbrVars, chainVars>>

DecodeNext ==
    \/ \E b0, b1 \in ByteSamples : call_arr_to_u16(<<b0, b1>>)
    \/ \E b0, b1, b2, b3 \in ByteSamples : call_arr_to_u32(<<b0, b1, b2, b3>>)
    \/ \E b0, b1, b2, b3 \in ByteSamples : call_sl_to_u32(<<b0, b1, b2, b3>>)

InitDecode == ClsInit /\ SdIdle /\ MbrIdle /\ ChainIdle

SpecDecode == InitDecode /\ [][DecodeNext]_vars

\* C24: arr_to_u16([b0, b1]) = b0 + 256 * b1, and arr_to_u32 and sl_to_u32 of
\* [b0, b1, b2, b3] both = b0 + 2^8 * b1 + 2^16 * b2 + 2^24 * b3 (low limb b0 +
\* 256 * b1, high limb b2 + 256 * b3), with nothing lost to overflow, so that
\* writing the value out little-endian gives the bytes back.
C24_DecodersAreLittleEndian ==
    /\ decode_call.fn = "arr_to_u16" =>
           /\ decode_result = <<0, decode_call.bytes[1] + 256 * decode_call.bytes[2]>>
           /\ U16Bytes(decode_result[2]) = decode_call.bytes
    /\ decode_call.fn \in {"arr_to_u32", "sl_to_u32"} =>
           /\ decode_result = <<decode_call.bytes[3] + 256 * decode_call.bytes[4],
                                decode_call.bytes[1] + 256 * decode_call.bytes[2]>>
           /\ decode_result = arr_to_u32(decode_call.bytes)
           /\ decode_result = sl_to_u32(decode_call.bytes)
           /\ U32Bytes(decode_result) = decode_call.bytes

\* C24 witness: arr_to_u32 decoded the bytes 01 7F 80 FF to 0xFF80_7F01
C24_Witness ==
    /\ decode_call = [fn |-> "arr_to_u32", bytes |-> <<1, 127, 128, 255>>]
    /\ decode_result = <<65408, 32513>>

----------------------------------------------------------------------------
(* Bring-up of the block device *)

\* C25: pi_sd_init moves the block device to Initialized only when the engine's
\* emmc_init_card succeeded: after a call during which it failed, the call
\* returned an error and the initialized flag is what it was before the call;
\* and a call never clears the flag.
C25_InitializedOnlyAfterCardInit ==
    /\ (sd_call.op = "init" /\ sd_call.engine = "error") =>
           /\ ~sd_result.ok
           /\ initialized = sd_call.was_initialized
    /\ (sd_call.op \in {"init", "read"} /\ sd_call.was_initialized) => initialized

----------------------------------------------------------------------------
(* The next-cluster value read by a walk *)

\* the four FAT bytes get_next_cluster_val indexes for cluster number c
NextClusterBytes(fat, c) == <<fat[c + 1], fat[c + 2], fat[c + 3], fat[c + 4]>>

\* C26: whenever a step of a walk reads the four FAT bytes b0 b1 b2 b3 of its
\* cluster (all four inside the buffer), the walk goes on, without an overflow
\* panic, to the cluster b0 + 2^8 * b1 + 2^16 * b2 + 2^24 * b3.
C26_NextClusterIsLittleEndian ==
    [][(/\ walk.pc = "loop"
        /\ Len(walk'.fat_reads) > Len(walk.fat_reads)
        /\ walk.cluster[1] = 0
        /\ walk.cluster[2] + 3 < Len(fat32.fat)) =>
           /\ walk'.pc = "loop"
           /\ U32Bytes(walk'.cluster) = NextClusterBytes(fat32.fat, walk.cluster[2])]_vars

----------------------------------------------------------------------------
(* Walks on a FAT with a cycle *)

\* C28: a walk visits each cluster at most once, whatever the FAT holds (so that
\* the number of loop iterations is bounded by the number of FAT entries and the
\* walk terminates, also on a FAT whose entries form a cycle).
C28_VisitsEachClusterOnce ==
    walk.pc # "idle" =>
        \A i, j \in 1..Len(walk.visited) : walk.visited[i] = walk.visited[j] => i = j

----------------------------------------------------------------------------
(* The top 4 bits of a FAT entry *)

\* C29: a walk ignores the top 4 bits of the entries it reads: every cluster it
\* follows from an entry (every visited cluster after the start cluster, and the
\* cluster it goes on with after a read) is the low 28 bits of the value read, so that
\* FATs differing only in those bits give the same visited clusters, FAT offsets
\* and LBAs.
C29_FollowsLow28Bits ==
    (walk.pc # "idle" /\ walk.fat_reads # <<>>) =>
        /\ \A i \in 2..Len(walk.visited) : walk.visited[i] = Low28(walk.visited[i])
        /\ walk.pc # "panic" => walk.cluster = Low28(walk.cluster)

----------------------------------------------------------------------------
(* FAT accesses and the FAT buffer *)

\* C30: every FAT access of a walk is inside the in-memory FAT buffer: whenever
\* get_next_cluster_val has indexed bytes idx .. idx + 3 for a cluster, idx + 3 is
\* below the length of the buffer (also on a volume whose FAT was not loaded, and
\* for every cluster reached by following Used entries).
C30_FatReadsInsideBuffer ==
    walk.pc # "idle" =>
        \A i \in 1..Len(walk.fat_reads) :
            /\ walk.fat_reads[i][1] = 0
            /\ walk.fat_reads[i][2] + 3 < Len(fat32.fat)

====
